---- MODULE Spec2Model ----
(***************************************************************************)
(* A model of the computation core of the NRL fantasy assistant:           *)
(*   scoring/engine.py            ScoringEngine                            *)
(*   data/ingestion/data_importer.py  DataImporter, run_import             *)
(*   models/predictor.py          PlayerPredictor                          *)
(*   optimization/team_optimizer.py   TeamOptimizer                        *)
(*   optimization/bye_planner.py  ByePlanner                               *)
(*                                                                         *)
(* Numbers.  The program computes with Python floats.  The model computes  *)
(* with integers in fixed point: fantasy points in tenths of a point,      *)
(* scoring coefficients and intermediate sums in thousandths, confidences  *)
(* in hundredths (thousandths before the final rounding).  The binary      *)
(* representation error of a float is not modelled.                        *)
(*                                                                         *)
(* Optional values.  Python's None is the empty sequence and a present     *)
(* value v is the one-element sequence <<v>>.                              *)
(***************************************************************************)
EXTENDS Integers, Sequences, FiniteSets, TLC

VARIABLES
    \* ---- scoring engine (scoring/engine.py) ----
    db_rules,      \* fantasy_scoring_rules table: season -> name of the rule table stored
    engine,        \* the ScoringEngine instance: None or <<[season, rules]>>
    \* the last call of the current engine instance (all None before its first call):
    stats,         \* the PlayerMatchStats object passed
    points,        \* the value calculate_points returned
    known,         \* the known_points passed to validate_calculation
    error,         \* the value validate_calculation returned
    memo,          \* history: an earlier call of this engine instance, <<[stats, points,
                   \* again]>>; again: the same stat line was passed in a later call
    op,            \* the operation that produced the current state
    \* ---- data import (data/ingestion/data_importer.py); the importer's
    \*      scoring_engine is the variable engine ----
    players,       \* players table: sequence of rows, the id of a row is its index
    matches,       \* matches table
    pms,           \* player_match_stats table
    scores,        \* fantasy_scores table
    scored_with,   \* history: <<season of the stat line, season of the engine>> of
                   \* every score computed by an import
    \* ---- predictor (models/predictor.py) ----
    prediction,    \* the call in progress: None, or <<[player_id, season, next_round,
                   \* lookback_games, result]>> once predict_next_round has returned
    \* ---- team optimizer and bye planner (optimization/) ----
    projections,   \* projections table
    prices,        \* fantasy_price_history table
    advice,        \* None, or <<the arguments and the result of the optimizer call made>>
    coverage,      \* None, or <<the arguments and the result of the bye planner call made>>
    \* ---- generate_all_projections (models/predictor.py) ----
    generation     \* None, or <<the state of the generate_all_projections call in progress>>

scoringVars == <<db_rules, engine, stats, points, error, known, memo>>
importVars == <<players, matches, pms, scores, scored_with>>
predictorVars == <<prediction, generation>>
plannerVars == <<projections, prices, advice, coverage>>
vars == <<db_rules, engine, stats, points, error, known, memo, op,
          players, matches, pms, scores, scored_with, prediction,
          projections, prices, advice, coverage, generation>>

\* the variables an operation of the scoring engine leaves alone
notScoring == <<importVars, predictorVars, plannerVars>>

None == <<>>
Some(v) == <<v>>
Val(o) == o[1]

Abs(x) == IF x < 0 THEN -x ELSE x
Max(a, b) == IF a >= b THEN a ELSE b
Min(a, b) == IF a <= b THEN a ELSE b

RECURSIVE SumSeq(_)
SumSeq(s) == IF s = <<>> THEN 0 ELSE Head(s) + SumSeq(Tail(s))

(***************************************************************************)
(* round(x, digits) of Python: to the nearest, ties to the even neighbour. *)
(* RoundDiv(x, d) rounds the exact quotient x / d, d > 0.                  *)
(***************************************************************************)
RoundDiv(x, d) ==
    LET q == x \div d
        r == x % d
    IN  IF 2 * r < d THEN q
        ELSE IF 2 * r > d THEN q + 1
        ELSE IF q % 2 = 0 THEN q ELSE q + 1

(***************************************************************************)
(* Bounds of the model.                                                    *)
(***************************************************************************)
MaxCount == 2
MaxBatch == 2      \* stat dicts in one import
MaxRows == 1       \* rows of player_match_stats before an import
MaxRound == 5      \* rounds played in the current season
MaxProjections == 8  \* rows of the projections table
MaxSquad == 3      \* ids in a squad passed to the bye planner

(***************************************************************************)
(*                        SCORING ENGINE                                   *)
(***************************************************************************)
Seasons == {2023, 2024}
DefaultSeason == 2024

\* the 16 keys of stat_values, in the order of the dict literal
StatKeys == << "tries", "try_assists", "linebreak_assists", "line_breaks",
               "run_metres", "tackle_breaks", "tackles", "offloads",
               "kick_metres", "forced_dropouts", "intercepts", "missed_tackles",
               "errors", "penalties_conceded", "sin_bins", "send_offs" >>
StatKeySet == {StatKeys[i] : i \in 1..Len(StatKeys)}

\* Rule tables, as key -> points per unit, in thousandths of a point.
\* The table seeded by init_db.seed_scoring_rules for 2024 (16 rules).
SeedRules2024 ==
    [k \in StatKeySet |->
        CASE k = "tries" -> 4000
          [] k = "try_assists" -> 4000
          [] k = "linebreak_assists" -> 2000
          [] k = "line_breaks" -> 4000
          [] k = "run_metres" -> 100
          [] k = "tackle_breaks" -> 1000
          [] k = "tackles" -> 1000
          [] k = "offloads" -> 1000
          [] k = "kick_metres" -> 33
          [] k = "forced_dropouts" -> 1000
          [] k = "intercepts" -> 4000
          [] k = "missed_tackles" -> -1000
          [] k = "errors" -> -3000
          [] k = "penalties_conceded" -> -3000
          [] k = "sin_bins" -> -10000
          [] k = "send_offs" -> -20000]

\* The 11 rules of the test fixture (the "2024 coefficients" of the golden cases).
TestRuleKeys == {"tries", "try_assists", "line_breaks", "linebreak_assists",
                 "run_metres", "tackle_breaks", "tackles", "offloads",
                 "missed_tackles", "errors", "penalties_conceded"}
TestRules2024 ==
    [k \in TestRuleKeys |->
        CASE k = "tries" -> 4000
          [] k = "try_assists" -> 4000
          [] k = "line_breaks" -> 4000
          [] k = "linebreak_assists" -> 2000
          [] k = "run_metres" -> 100
          [] k = "tackle_breaks" -> 1000
          [] k = "tackles" -> 1000
          [] k = "offloads" -> 1000
          [] k = "missed_tackles" -> -1000
          [] k = "errors" -> -3000
          [] k = "penalties_conceded" -> -3000]

\* Rows of another season with other coefficients (the table is data: any rows
\* may be stored for a season).
OtherRules ==
    [k \in StatKeySet \ {"kick_metres", "sin_bins"} |->
        CASE k = "tries" -> 8000
          [] k = "run_metres" -> 50
          [] k = "errors" -> -2000
          [] OTHER -> SeedRules2024[k]]

TableNames == {"none", "seed", "test", "other"}
RuleTable(name) ==
    CASE name = "seed" -> SeedRules2024
      [] name = "test" -> TestRules2024
      [] name = "other" -> OtherRules
      [] OTHER -> << >>

\* The tables that may be stored for a season.
TablesOf(season) == IF season = 2024 THEN {"seed", "test"} ELSE {"other"}

(***************************************************************************)
(* Stat lines: key -> None or <<count>>.                                   *)
(***************************************************************************)
ZeroLine == [k \in StatKeySet |-> Some(0)]

Line(tr, ta, la, lb, rm, tb, tk, ol, mt, er, pc) ==
    [ZeroLine EXCEPT !["tries"] = Some(tr), !["try_assists"] = Some(ta),
                     !["linebreak_assists"] = Some(la), !["line_breaks"] = Some(lb),
                     !["run_metres"] = Some(rm), !["tackle_breaks"] = Some(tb),
                     !["tackles"] = Some(tk), !["offloads"] = Some(ol),
                     !["missed_tackles"] = Some(mt), !["errors"] = Some(er),
                     !["penalties_conceded"] = Some(pc)]

\* the stat lines of tests/test_scoring_engine.py
GoldenBasic      == Line(1, 0, 0, 0, 100, 3, 30, 2, 2, 1, 0)
GoldenPremium    == Line(2, 2, 1, 2, 200, 6, 25, 3, 0, 0, 0)
GoldenForward    == Line(0, 0, 0, 0, 150, 4, 40, 2, 3, 1, 1)
GoldenNegative   == Line(0, 0, 0, 0, 50, 0, 10, 0, 5, 3, 2)
GoldenValidation == Line(1, 0, 0, 1, 120, 3, 25, 1, 1, 0, 0)
TestLines == {GoldenBasic, GoldenPremium, GoldenForward, GoldenNegative, GoldenValidation}

\* a line as DataImporter builds it: sin_bins and send_offs are not passed to the
\* constructor and read as None until the row is flushed
ImporterLine == [GoldenBasic EXCEPT !["sin_bins"] = None, !["send_offs"] = None,
                                    !["kick_metres"] = Some(2)]

\* lines with one field that is null or non-zero
SingleLines ==
    {[ZeroLine EXCEPT ![k] = v] :
        k \in StatKeySet, v \in {None} \cup {Some(n) : n \in 1..MaxCount}}

StatLines == {ZeroLine, ImporterLine} \cup TestLines \cup SingleLines

(***************************************************************************)
(* ScoringEngine._load_scoring_rules: the rows of the engine's season as a *)
(* dict stat_key -> points; the empty dict when the season has no row.     *)
(***************************************************************************)
load_scoring_rules(db, season) == RuleTable(db[season])

(***************************************************************************)
(* ScoringEngine.calculate_points: the loop over stat_values.items() adds  *)
(* value * points_per for a key that has a rule and a value that is not    *)
(* None; the total is rounded to one decimal.  The result is in tenths.    *)
(***************************************************************************)
\* as apply_rules, but a key without a rule counts one point per unit
RECURSIVE apply_rules_default_rule(_, _, _, _)
apply_rules_default_rule(rules, st, i, total_points) ==
    IF i > Len(StatKeys) THEN total_points
    ELSE LET stat_key == StatKeys[i]
             value == st[stat_key]
             points_per == IF stat_key \in DOMAIN rules THEN rules[stat_key] ELSE 1000
         IN  IF value # None
             THEN apply_rules_default_rule(rules, st, i + 1, total_points + Val(value) * points_per)
             ELSE apply_rules_default_rule(rules, st, i + 1, total_points)

RECURSIVE apply_rules(_, _, _, _)
apply_rules(rules, st, i, total_points) ==
    IF i > Len(StatKeys) THEN total_points
    ELSE LET stat_key == StatKeys[i]
             value == st[stat_key]
         IN  IF stat_key \in DOMAIN rules /\ value # None
             THEN apply_rules(rules, st, i + 1, total_points + Val(value) * rules[stat_key])
             ELSE apply_rules(rules, st, i + 1, total_points)

\* as calculate_points, but the penalty rules are applied with the wrong sign
calculate_points_unsigned(rules, st) ==
    RoundDiv(apply_rules([k \in DOMAIN rules |-> Abs(rules[k])], st, 1, 0), 100)

calculate_points(rules, st) == RoundDiv(apply_rules(rules, st, 1, 0), 100)

(***************************************************************************)
(* ScoringEngine.validate_calculation: |calculated - known_points|.        *)
(***************************************************************************)
validate_calculation(rules, st, known_points) ==
    Abs(calculate_points(rules, st) - known_points)

KnownPoints == {0, 440, 480, 800}

\* seed rows for a season that has none (init_db.seed_scoring_rules)
SeedScoringRules ==
    \E season \in Seasons : \E t \in TablesOf(season) :
        /\ db_rules[season] = "none"
        /\ db_rules' = [db_rules EXCEPT ![season] = t]
        /\ op' = "seed"
        /\ UNCHANGED <<engine, stats, points, error, known, memo>>
        /\ UNCHANGED notScoring

\* ScoringEngine.__init__(db, season): the rules are loaded once, here
ConstructEngine ==
    \E season \in Seasons :
        /\ engine' = Some([season |-> season,
                           rules |-> load_scoring_rules(db_rules, season)])
        /\ memo' = None
        /\ stats' = None /\ points' = None /\ known' = None /\ error' = None
        /\ op' = "construct"
        /\ UNCHANGED db_rules
        /\ UNCHANGED notScoring

\* the history variable after a call with stat line st that returned p
Remember(st, p, remember) ==
    IF remember THEN Some([stats |-> st, points |-> p, again |-> FALSE])
    ELSE IF memo # None /\ Val(memo).stats = st
         THEN Some([Val(memo) EXCEPT !.again = TRUE])
         ELSE memo

\* as CalculatePoints, but the rules are queried again at every call
CalculatePoints_reloading(Lines, history) ==
    \E st \in Lines :
    \E remember \in IF history /\ memo = None THEN BOOLEAN ELSE {FALSE} :
        /\ engine # None
        /\ LET p == calculate_points(load_scoring_rules(db_rules, Val(engine).season), st)
           IN  /\ points' = Some(p)
               /\ memo' = Remember(st, p, remember)
        /\ stats' = Some(st)
        /\ known' = None /\ error' = None
        /\ op' = "calc"
        /\ UNCHANGED <<db_rules, engine>>
        /\ UNCHANGED notScoring

\* engine.calculate_points(stats), stats among Lines; with history the call may be
\* the one the history variable memo remembers
CalculatePoints(Lines, history) ==
    \E st \in Lines :
    \E remember \in IF history /\ memo = None THEN BOOLEAN ELSE {FALSE} :
        /\ engine # None
        /\ LET p == calculate_points(Val(engine).rules, st)
           IN  /\ points' = Some(p)
               /\ memo' = Remember(st, p, remember)
        /\ stats' = Some(st)
        /\ known' = None /\ error' = None
        /\ op' = "calc"
        /\ UNCHANGED <<db_rules, engine>>
        /\ UNCHANGED notScoring

\* engine.validate_calculation(player_stats, known_points)
ValidateCalculation ==
    \E st \in TestLines, k \in KnownPoints :
        /\ engine # None
        /\ stats' = Some(st)
        /\ known' = Some(k)
        /\ points' = Some(calculate_points(Val(engine).rules, st))
        /\ error' = Some(validate_calculation(Val(engine).rules, st, k))
        /\ memo' = Remember(st, calculate_points(Val(engine).rules, st), FALSE)
        /\ op' = "validate"
        /\ UNCHANGED <<db_rules, engine>>
        /\ UNCHANGED notScoring

ImportIdle ==
    /\ players = <<>>
    /\ matches = <<>>
    /\ pms = <<>>
    /\ scores = <<>>
    /\ scored_with = {}
    /\ prediction = None /\ generation = None
    /\ projections = <<>> /\ prices = <<>> /\ advice = None /\ coverage = None

ScoringInit ==
    /\ ImportIdle
    /\ db_rules \in [Seasons -> {"none"}]
    /\ engine = None
    /\ stats = None
    /\ points = None
    /\ error = None
    /\ known = None
    /\ memo = None
    /\ op = "init"

ScoringNext ==
    \/ SeedScoringRules
    \/ ConstructEngine
    \/ CalculatePoints(StatLines, FALSE)
    \/ ValidateCalculation

SpecScoring == ScoringInit /\ [][ScoringNext]_vars

\* the same engine, with the history variable recording one earlier call
HistoryLines == TestLines \cup {ZeroLine, ImporterLine}

HistoryNext ==
    \/ SeedScoringRules
    \/ ConstructEngine
    \/ CalculatePoints(HistoryLines, TRUE)
    \/ ValidateCalculation

SpecScoringHistory == ScoringInit /\ [][HistoryNext]_vars

(***************************************************************************)
(*                          DATA IMPORT                                    *)
(* The session is created with autoflush=False (database.py): a query sees *)
(* the committed rows only, and the rows added since the last commit are   *)
(* appended to their table, in the order they were added, by db.commit().  *)
(***************************************************************************)
PlayerNames == {"p1", "p2"}
TeamOf(name) == IF name = "p1" THEN "A" ELSE "B"
Rounds == {1}

\* A round as it arrives in a dict: an int, or the str of one (a key of the
\* fetched JSON object; NRLDataFetcher sets stat['round'] to such a key).
IntRound(n) == [kind |-> "int", n |-> n]
StrRound(n) == [kind |-> "str", n |-> n]

\* the 14 counts DataImporter reads from a stat dict; stat.get(key, 0)
ImportKeys == StatKeySet \ {"sin_bins", "send_offs"}
CountsA == [k \in ImportKeys |-> Val(GoldenBasic[k])]
ImportCounts == {CountsA}

StatDicts(kind) ==
    {[player_name |-> n, team |-> TeamOf(n), round |-> [kind |-> kind, n |-> r],
      minutes |-> 80, counts |-> c] : n \in PlayerNames, r \in Rounds, c \in ImportCounts}

\* the match dicts of a season: one match per round
MatchDicts(kind) ==
    {[round |-> [kind |-> kind, n |-> r], home_team |-> "A", away_team |-> "B"] :
        r \in Rounds}

SeqsUpTo(S, n) == UNION {[1..k -> S] : k \in 0..n}

\* id of the first of the rows hits (the ids that satisfy the filter), 0 when there is none
\* (query.first() over the committed rows, in id order)
First(hits) ==
    IF hits # {}
    THEN CHOOSE i \in hits : \A j \in hits : i <= j
    ELSE 0

(***************************************************************************)
(* DataImporter.import_players_from_stats.  Returns the players table      *)
(* after the commit and players_map as a function name -> player id.       *)
(***************************************************************************)
RECURSIVE import_players_loop(_, _, _, _)
import_players_loop(table, added, pmap, batch) ==
    IF batch = <<>> THEN [players |-> table \o added, players_map |-> pmap]
    ELSE LET stat == Head(batch)
             player_name == stat.player_name
             SameName(row) == row.name = player_name
             existing == First({i_ \in 1..Len(table) : SameName(table[i_])})
         IN  IF player_name \in DOMAIN pmap
             THEN import_players_loop(table, added, pmap, Tail(batch))
             ELSE IF existing # 0
             THEN import_players_loop(table, added,
                      [n \in DOMAIN pmap \cup {player_name} |->
                          IF n = player_name THEN existing ELSE pmap[n]],
                      Tail(batch))
             ELSE import_players_loop(table,
                      Append(added, [name |-> player_name, team |-> stat.team]),
                      [n \in DOMAIN pmap \cup {player_name} |->
                          IF n = player_name THEN Len(table) + Len(added) + 1 ELSE pmap[n]],
                      Tail(batch))

import_players_from_stats(table, player_stats) ==
    import_players_loop(table, <<>>, << >>, player_stats)

(***************************************************************************)
(* DataImporter.import_matches.  matches_map is a dict: here the sequence  *)
(* of its items [key, id] in insertion order; a key set again keeps its    *)
(* position and takes the new value.                                       *)
(***************************************************************************)
DictSet(items, key, value) ==
    IF \E i \in 1..Len(items) : items[i].key = key
    THEN [i \in 1..Len(items) |->
            IF items[i].key = key THEN [key |-> key, id |-> value] ELSE items[i]]
    ELSE Append(items, [key |-> key, id |-> value])

RECURSIVE import_matches_loop(_, _, _, _, _)
import_matches_loop(table, added, mmap, match_data, season) ==
    IF match_data = <<>> THEN [matches |-> table \o added, matches_map |-> mmap]
    ELSE LET match_info == Head(match_data)
             match_id_key == <<season, match_info.round, match_info.home_team,
                               match_info.away_team>>
             Same(row) == /\ row.season = season
                          /\ row.round = match_info.round.n      \* int(round)
                          /\ row.home_team = match_info.home_team
                          /\ row.away_team = match_info.away_team
             existing == First({i_ \in 1..Len(table) : Same(table[i_])})
         IN  IF existing # 0
             THEN import_matches_loop(table, added, DictSet(mmap, match_id_key, existing),
                                      Tail(match_data), season)
             ELSE import_matches_loop(table,
                      Append(added, [season |-> season, round |-> match_info.round.n,
                                     home_team |-> match_info.home_team,
                                     away_team |-> match_info.away_team]),
                      DictSet(mmap, match_id_key, Len(table) + Len(added) + 1),
                      Tail(match_data), season)

import_matches(table, match_data, season) ==
    import_matches_loop(table, <<>>, <<>>, match_data, season)

(***************************************************************************)
(* DataImporter.import_player_stats.                                       *)
(***************************************************************************)
\* match_obj.round == round_num: an int equals an int of the same value, never a str
RoundEquals(match_round, round_num) == round_num.kind = "int" /\ round_num.n = match_round

\* PlayerMatchStats(...) as the importer builds it: sin_bins and send_offs are
\* not passed and read as None until the row is flushed
player_match_stats(stat) ==
    [k \in StatKeySet |-> IF k \in ImportKeys THEN Some(stat.counts[k]) ELSE None]

\* d: [pms, scores, scored_with, added_pms, added_scores]
RECURSIVE import_player_stats_loop(_, _, _, _, _, _, _)
import_player_stats_loop(d, eng, stats_data, season, players_map, matches_map, match_table) ==
    IF stats_data = <<>>
    THEN [pms |-> d.pms \o d.added_pms, scores |-> d.scores \o d.added_scores,
          scored_with |-> d.scored_with]
    ELSE LET stat == Head(stats_data)
             rest == Tail(stats_data)
             player_name == stat.player_name
             round_num == stat.round
             team == stat.team
             Plays(item) == LET match_obj == match_table[item.id]
                            IN  /\ RoundEquals(match_obj.round, round_num)
                                /\ (match_obj.home_team = team \/ match_obj.away_team = team)
             found == First({i_ \in 1..Len(matches_map) : Plays(matches_map[i_])})
         IN  IF player_name \notin DOMAIN players_map
             THEN import_player_stats_loop(d, eng, rest, season, players_map, matches_map, match_table)
             ELSE IF found = 0
             THEN import_player_stats_loop(d, eng, rest, season, players_map, matches_map, match_table)
             ELSE LET player_id == players_map[player_name]
                      match_id == matches_map[found].id
                      Same(row) == row.player_id = player_id /\ row.match_id = match_id
                      existing == First({i_ \in 1..Len(d.pms) : Same(d.pms[i_])})
                      player_stats == player_match_stats(stat)
                      fantasy_points == calculate_points(eng.rules, player_stats)
                  IN  IF existing # 0
                      THEN import_player_stats_loop(d, eng, rest, season, players_map,
                                                    matches_map, match_table)
                      ELSE import_player_stats_loop(
                              [d EXCEPT
                                 !.added_pms = Append(@, [player_id |-> player_id,
                                                          match_id |-> match_id,
                                                          minutes |-> stat.minutes,
                                                          line |-> player_stats]),
                                 !.added_scores = Append(@, [player_id |-> player_id,
                                                             match_id |-> match_id,
                                                             round |-> match_table[match_id].round,
                                                             season |-> season,
                                                             fantasy_points |-> fantasy_points]),
                                 !.scored_with = @ \cup {<<season, eng.season>>}],
                              eng, rest, season, players_map, matches_map, match_table)

import_player_stats(d, eng, stats_data, season, players_map, matches_map, match_table) ==
    import_player_stats_loop(
        [pms |-> d.pms, scores |-> d.scores, scored_with |-> d.scored_with,
         added_pms |-> <<>>, added_scores |-> <<>>],
        eng, stats_data, season, players_map, matches_map, match_table)

\* the three steps of an import, in order, on the tables d
import_all(d, eng, season, player_stats, match_data) ==
    LET p == import_players_from_stats(d.players, player_stats)
        mt == import_matches(d.matches, match_data, season)
        r == import_player_stats(d, eng, player_stats, season, p.players_map,
                                 mt.matches_map, mt.matches)
    IN  [players |-> p.players, matches |-> mt.matches, pms |-> r.pms,
         scores |-> r.scores, scored_with |-> r.scored_with]

\* DataImporter.import_season: the data is what NRLDataFetcher returns for the
\* season; nothing is done when both lists are empty
import_season(d, eng, season, player_stats, match_data) ==
    IF player_stats = <<>> /\ match_data = <<>> THEN d
    ELSE import_all(d, eng, season, player_stats, match_data)

Tables == [players |-> players, matches |-> matches, pms |-> pms, scores |-> scores,
           scored_with |-> scored_with]

SetTables(d) ==
    /\ players' = d.players
    /\ matches' = d.matches
    /\ pms' = d.pms
    /\ scores' = d.scores
    /\ scored_with' = d.scored_with

\* DataImporter.__init__: the scoring engine is built for the default season
scoring_engine(db) == [season |-> DefaultSeason, rules |-> load_scoring_rules(db, DefaultSeason)]

NewImporter ==
    /\ engine' = Some(scoring_engine(db_rules))
    /\ op' = "importer"
    /\ UNCHANGED <<db_rules, stats, points, error, known, memo>>
    /\ UNCHANGED <<importVars, predictorVars, plannerVars>>

\* run_import(db, seasons) for one season, or importer.import_season(season):
\* the fetched stat dicts carry their round as a str
ImportSeason ==
    \E season \in Seasons :
    \E player_stats \in SeqsUpTo(StatDicts("str"), MaxBatch) :
    \E match_data \in SeqsUpTo(MatchDicts("str"), 1) :
        /\ engine # None
        /\ Len(pms) <= MaxRows
        /\ SetTables(import_season(Tables, Val(engine), season, player_stats, match_data))
        /\ op' = "import_season"
        /\ UNCHANGED <<scoringVars, predictorVars, plannerVars>>

\* a caller that imports its own data with the importer's three methods:
\* import_players_from_stats, import_matches, import_player_stats
ImportData ==
    \E season \in Seasons :
    \E player_stats \in SeqsUpTo(StatDicts("int"), MaxBatch) :
    \E match_data \in SeqsUpTo(MatchDicts("int"), 1) :
        /\ engine # None
        /\ Len(pms) <= MaxRows
        /\ SetTables(import_all(Tables, Val(engine), season, player_stats, match_data))
        /\ op' = "import_data"
        /\ UNCHANGED <<scoringVars, predictorVars, plannerVars>>

ImportNext ==
    \/ SeedScoringRules
    \/ NewImporter
    \/ ImportSeason
    \/ ImportData

SpecImport == ScoringInit /\ [][ImportNext]_vars

(***************************************************************************)
(*                           PREDICTOR                                     *)
(* Points are in tenths of a point, minutes in minutes, confidences in     *)
(* hundredths.  std_dev is computed to a hundredth of a point.             *)
(***************************************************************************)
\* the largest q with q * q <= x, by bisection of lo..hi
RECURSIVE isqrt_between(_, _, _)
isqrt_between(x, lo, hi) ==
    IF lo >= hi THEN lo
    ELSE LET mid == (lo + hi + 1) \div 2
         IN  IF mid * mid <= x THEN isqrt_between(x, mid, hi)
             ELSE isqrt_between(x, lo, mid - 1)
isqrt(x) == isqrt_between(x, 0, 46340)

\* the rows of a table whose ids are in hits, as their ids in id order from i on
RECURSIVE select_from(_, _, _)
select_from(table, hits, i) ==
    IF i > Len(table) THEN <<>>
    ELSE IF i \in hits THEN <<i>> \o select_from(table, hits, i + 1)
    ELSE select_from(table, hits, i + 1)

\* order_by(desc(round)): ids by key[id] descending; rows with equal keys stay in id order
RECURSIVE order_by_desc(_, _)
order_by_desc(ids, key) ==
    IF ids = <<>> THEN <<>>
    ELSE LET best == CHOOSE i \in 1..Len(ids) :
                        /\ \A j \in 1..Len(ids) : key[ids[j]] <= key[ids[i]]
                        /\ \A j \in 1..(i - 1) : key[ids[j]] < key[ids[i]]
             rest == [j \in 1..(Len(ids) - 1) |-> IF j < best THEN ids[j] ELSE ids[j + 1]]
         IN  <<ids[best]>> \o order_by_desc(rest, key)

\* .limit(n)
limit(seq, n) == IF Len(seq) <= n THEN seq ELSE SubSeq(seq, 1, n)

\* a query that forgets the season filter
recent_scores_any_season(score_table, player_id, season, next_round, lookback_games) ==
    LET Keep(row) == row.player_id = player_id /\ row.round < next_round
        Key == [id \in 1..Len(score_table) |-> score_table[id].round]
        hits == {id \in 1..Len(score_table) : Keep(score_table[id])}
        ids == limit(order_by_desc(select_from(score_table, hits, 1), Key), lookback_games)
    IN  [i \in 1..Len(ids) |-> score_table[ids[i]].fantasy_points]

\* the FantasyScore query of predict_next_round, as fantasy_points most recent first
recent_scores(score_table, player_id, season, next_round, lookback_games) ==
    LET Keep(row) == /\ row.player_id = player_id
                     /\ row.season = season
                     /\ row.round < next_round
        Key == [id \in 1..Len(score_table) |-> score_table[id].round]
        hits == {id \in 1..Len(score_table) : Keep(score_table[id])}
        ids == limit(order_by_desc(select_from(score_table, hits, 1), Key), lookback_games)
    IN  [i \in 1..Len(ids) |-> score_table[ids[i]].fantasy_points]

\* a stats query that forgets the round filter
recent_stats_any_round(pms_table, match_table, player_id, season, next_round, lookback_games) ==
    LET Keep(row) == /\ row.player_id = player_id
                     /\ match_table[row.match_id].season = season
        Key == [id \in 1..Len(pms_table) |-> match_table[pms_table[id].match_id].round]
        hits == {id \in 1..Len(pms_table) : Keep(pms_table[id])}
        ids == limit(order_by_desc(select_from(pms_table, hits, 1), Key), lookback_games)
    IN  [i \in 1..Len(ids) |-> pms_table[ids[i]].minutes]

\* the PlayerMatchStats join Match query, as minutes most recent first
recent_stats(pms_table, match_table, player_id, season, next_round, lookback_games) ==
    LET Keep(row) == /\ row.player_id = player_id
                     /\ match_table[row.match_id].season = season
                     /\ match_table[row.match_id].round < next_round
        Key == [id \in 1..Len(pms_table) |-> match_table[pms_table[id].match_id].round]
        hits == {id \in 1..Len(pms_table) : Keep(pms_table[id])}
        ids == limit(order_by_desc(select_from(pms_table, hits, 1), Key), lookback_games)
    IN  [i \in 1..Len(ids) |-> pms_table[ids[i]].minutes]

NoHistoryPoints == 350
NoHistoryConfidence == 30
DefaultMinutes == 60
NormalMinutes == 70

\* consistency_score * 0.7 + data_score * 0.3, rounded to 2 decimals, in hundredths
confidence_of(all_points, lookback_games) ==
    LET n == Len(all_points)
        total == SumSeq(all_points)
        squares == SumSeq([i \in 1..n |-> all_points[i] * all_points[i]])
        \* std_dev / max(1, avg_all) = sqrt(n * squares - total^2) / max(10 * n, total)
        sd10 == isqrt(100 * (n * squares - total * total))
        ratio == (100 * sd10) \div Max(10 * n, total)
        consistency_score == Max(300, 1000 - ratio)
        data_score == Min(1000, (1000 * n) \div lookback_games)
    IN  RoundDiv(7 * consistency_score + 3 * data_score, 100)

\* the "features" dict of the weighted-average result
features_of(all_points, minutes) ==
    LET n == Len(all_points)
        total == SumSeq(all_points)
        squares == SumSeq([i \in 1..n |-> all_points[i] * all_points[i]])
        last_3_points == limit(all_points, 3)
    IN  [avg_all_games |-> RoundDiv(total, n),
         avg_last_3 |-> RoundDiv(SumSeq(last_3_points), Len(last_3_points)),
         avg_minutes |-> IF minutes = <<>> THEN 10 * DefaultMinutes
                         ELSE RoundDiv(10 * SumSeq(minutes), Len(minutes)),
         games_analyzed |-> n,
         std_dev |-> RoundDiv(isqrt(100 * (n * squares - total * total)), 10 * n)]

\* a prediction that scales with the minutes without the cap at 1
predicted_points_uncapped(all_points, minutes) ==
    LET n == Len(all_points)
        w_num == IF n >= 4
                 THEN 4 * all_points[1] + 3 * all_points[2] + 2 * all_points[3] + all_points[4]
                 ELSE SumSeq(all_points)
        w_den == IF n >= 4 THEN 10 ELSE n
        sum_minutes == IF minutes = <<>> THEN DefaultMinutes ELSE SumSeq(minutes)
        count == IF minutes = <<>> THEN 1 ELSE Len(minutes)
    IN  RoundDiv(w_num * sum_minutes, w_den * NormalMinutes * count)

\* weighted_points * minutes_factor, rounded to 1 decimal, in tenths
predicted_points_of(all_points, minutes) ==
    LET n == Len(all_points)
        \* weighted_points = w_num / w_den
        w_num == IF n >= 4
                 THEN 4 * all_points[1] + 3 * all_points[2] + 2 * all_points[3] + all_points[4]
                 ELSE SumSeq(all_points)
        w_den == IF n >= 4 THEN 10 ELSE n
        \* minutes_factor = min(1, avg_minutes / 70) = f_num / f_den
        sum_minutes == IF minutes = <<>> THEN DefaultMinutes ELSE SumSeq(minutes)
        count == IF minutes = <<>> THEN 1 ELSE Len(minutes)
        capped == sum_minutes >= NormalMinutes * count
        f_num == IF capped THEN 1 ELSE sum_minutes
        f_den == IF capped THEN 1 ELSE NormalMinutes * count
    IN  RoundDiv(w_num * f_num, w_den * f_den)

(***************************************************************************)
(* PlayerPredictor(db, lookback_games).predict_next_round                  *)
(***************************************************************************)
predict_next_round(player_table, score_table, pms_table, match_table, player_id, season, next_round, lookback_games) ==
    LET all_points == recent_scores(score_table, player_id, season, next_round, lookback_games)
        minutes == recent_stats(pms_table, match_table, player_id, season, next_round,
                                lookback_games)
    IN  IF player_id \notin 1..Len(player_table)
        THEN [status |-> "ValueError"]
        ELSE IF all_points = <<>>
        THEN [status |-> "ok", player_id |-> player_id,
              predicted_points |-> NoHistoryPoints, confidence |-> NoHistoryConfidence,
              method |-> "no_history", features |-> << >>]
        ELSE [status |-> "ok", player_id |-> player_id,
              predicted_points |-> predicted_points_of(all_points, minutes),
              confidence |-> confidence_of(all_points, lookback_games),
              method |-> "weighted_average",
              features |-> features_of(all_points, minutes)]

(***************************************************************************)
(*                       ADVANCED PREDICTOR                                *)
(* venue factors in 1/10000, consistency in thousandths, opponent_defense  *)
(* in tenths of a point.                                                   *)
(***************************************************************************)
RECURSIVE gcd(_, _)
gcd(a, b) == IF b = 0 THEN Abs(a) ELSE gcd(b, a % b)

\* x / d rounded to the nearest integer (ties to even) after cancelling common factors
RoundRatio(x, d) == LET g == Max(1, gcd(x, d)) IN RoundDiv(x \div g, d \div g)

LeagueAverage == 450
AdvancedLookback == 10
StatsLookback == 5

\* every row the importer and the sample data store is completed (completed=True)
completed(match) == TRUE

\* AdvancedPredictor.calculate_team_defensive_strength: 45.0 when the team has no
\* completed match in the season; otherwise the loop builds
\* query(FantasyScore).join(PlayerMatchStats), and the two tables have no
\* foreign key to each other, so SQLAlchemy raises InvalidRequestError
calculate_team_defensive_strength(match_table, team, season) ==
    LET team_matches == {id \in 1..Len(match_table) :
                            /\ match_table[id].season = season
                            /\ team \in {match_table[id].home_team, match_table[id].away_team}
                            /\ completed(match_table[id])}
    IN  IF team_matches = {} THEN [status |-> "ok", value |-> LeagueAverage]
        ELSE [status |-> "InvalidRequestError"]

\* venue_adjustments, in hundredths; 100 when the venue or the team is not listed
venue_adjustment(team, venue) ==
    CASE venue = "Penrith Stadium" /\ team = "Penrith Panthers" -> 108
      [] venue = "AAMI Park" /\ team = "Melbourne Storm" -> 107
      [] venue = "Suncorp Stadium" /\ team = "Brisbane Broncos" -> 106
      [] venue = "Suncorp Stadium" /\ team = "Dolphins" -> 103
      [] venue = "Allianz Stadium" /\ team = "Sydney Roosters" -> 105
      [] OTHER -> 100

\* AdvancedPredictor.get_venue_factor
get_venue_factor(team, venue, is_home) ==
    (IF is_home THEN 105 ELSE 95) * venue_adjustment(team, venue)

\* 1.0 - std / max(1, mean) over all_points
consistency_of(all_points) ==
    LET n == Len(all_points)
        total == SumSeq(all_points)
        squares == SumSeq([i \in 1..n |-> all_points[i] * all_points[i]])
        sd10 == isqrt(100 * (n * squares - total * total))
    IN  1000 - ((100 * sd10) \div Max(10 * n, total))

\* AdvancedPredictor.extract_features; context = [opponent, is_home, venue], each
\* None or <<value>>
extract_features(player_table, score_table, match_table, player_id, season, next_round, context) ==
    LET all_points == recent_scores(score_table, player_id, season, next_round,
                                    AdvancedLookback)
        known_player == player_id \in 1..Len(player_table)
        defense == IF context.opponent # None /\ known_player
                   THEN calculate_team_defensive_strength(match_table,
                            Val(context.opponent), season)
                   ELSE [status |-> "ok", value |-> LeagueAverage]
    IN  IF all_points = <<>>
        THEN \* _get_default_features
             [status |-> "ok", last_3 |-> <<NoHistoryPoints>>, last_5 |-> <<NoHistoryPoints>>,
              last_10 |-> <<NoHistoryPoints>>, consistency |-> 500,
              opponent_defense |-> LeagueAverage, venue_factor |-> 10000]
        ELSE IF defense.status # "ok" THEN [status |-> defense.status]
        ELSE [status |-> "ok",
              last_3 |-> limit(all_points, 3), last_5 |-> limit(all_points, 5),
              last_10 |-> all_points,
              consistency |-> consistency_of(all_points),
              opponent_defense |-> defense.value,
              venue_factor |->
                  IF context.is_home # None /\ context.venue # None /\ known_player
                  THEN get_venue_factor(player_table[player_id].team, Val(context.venue),
                                        Val(context.is_home))
                  ELSE 10000]

\* the opponent adjustment of the fallback, in hundredths
opponent_adjustment(opponent_defense) ==
    IF opponent_defense > 500 THEN 105
    ELSE IF opponent_defense < 400 THEN 95
    ELSE 100

\* (avg_last_3 * 0.5 + avg_last_5 * 0.3 + avg_last_10 * 0.2) * venue_factor *
\* adjustment, rounded to 1 decimal, in tenths
blend_of(features) ==
    LET n3 == Len(features.last_3)
        n5 == Len(features.last_5)
        n10 == Len(features.last_10)
        num == 5 * SumSeq(features.last_3) * n5 * n10
                 + 3 * SumSeq(features.last_5) * n3 * n10
                 + 2 * SumSeq(features.last_10) * n3 * n5
        den == 10 * n3 * n5 * n10
        g == Max(1, gcd(num, den))
        scaled == (features.venue_factor \div 5) * (opponent_adjustment(features.opponent_defense) \div 5)
    IN  RoundRatio((num \div g) * scaled, (den \div g) * 2000 * 20)

\* AdvancedPredictor.predict; model is None (no trained model loaded) or <<the
\* points the trained model returns for the feature vector>>
advanced_predict(player_table, score_table, match_table, player_id, season, next_round, context, model) ==
    LET features == extract_features(player_table, score_table, match_table, player_id,
                                     season, next_round, context)
    IN  IF features.status # "ok" THEN [status |-> features.status]
        ELSE [status |-> "ok",
              predicted_points |-> IF model # None THEN Val(model) ELSE blend_of(features),
              confidence |-> IF model # None
                             THEN RoundDiv(Min(950, features.consistency), 10)
                             ELSE RoundDiv(8 * features.consistency, 100),
              features |-> features,
              opponent |-> context.opponent,
              is_home |-> context.is_home]

\* ---- the data the predictor runs on ----
CurrentSeason == 2024
PlayerIds == 1..3          \* the players table holds players 1 and 2; 3 matches no player
Lookbacks == {3, 5, 10}    \* lookback_games; 5 is the default (config.model_lookback_games)

\* what player 1 did in a round: fantasy points, and minutes (None: no stat row)
Games == {[points |-> 0, minutes |-> Some(80)],
          [points |-> 1000, minutes |-> Some(35)],
          [points |-> 455, minutes |-> None]}

RoundsPlayed(season) ==
    Cardinality({i \in 1..Len(matches) : matches[i].season = season})

GameRows(player_id, match_id, season, round, g) ==
    [scores |-> <<[player_id |-> player_id, match_id |-> match_id, round |-> round,
                   season |-> season, fantasy_points |-> g.points]>>,
     pms |-> IF g.minutes = None THEN <<>>
             ELSE <<[player_id |-> player_id, match_id |-> match_id,
                     minutes |-> Val(g.minutes)]>>]

\* the next round of the current season is played and its rows are stored
PlayRound ==
    \E g \in Games :
        LET round == RoundsPlayed(CurrentSeason) + 1
            rows == GameRows(1, Len(matches) + 1, CurrentSeason, round, g)
        IN  /\ prediction = None
            /\ round <= MaxRound
            /\ matches' = Append(matches, [season |-> CurrentSeason, round |-> round,
                                           home_team |-> "A", away_team |-> "B"])
            /\ scores' = scores \o rows.scores
            /\ pms' = pms \o rows.pms
            /\ op' = "play"
            /\ UNCHANGED <<players, scored_with, prediction, generation, scoringVars, plannerVars>>

\* rows the prediction for player 1 in the current season must not read: last
\* season's game of player 1 and the game of player 2 in that match
OtherRows ==
    LET match_id == Len(matches) + 1
        r1 == GameRows(1, match_id, 2023, 1, [points |-> 200, minutes |-> Some(20)])
        r2 == GameRows(2, match_id, 2023, 1, [points |-> 600, minutes |-> Some(70)])
    IN  /\ prediction = None
        /\ matches = <<>>
        /\ matches' = Append(matches, [season |-> 2023, round |-> 1,
                                       home_team |-> "A", away_team |-> "B"])
        /\ scores' = scores \o r1.scores \o r2.scores
        /\ pms' = pms \o r1.pms \o r2.pms
        /\ op' = "other"
        /\ UNCHANGED <<players, scored_with, prediction, generation, scoringVars, plannerVars>>

\* PlayerPredictor(db, lookback_games).predict_next_round(player_id, season, next_round)
Predict ==
    \E player_id \in PlayerIds, season \in Seasons, next_round \in 1..(MaxRound + 1),
       lookback_games \in Lookbacks :
        /\ prediction = None
        /\ prediction' = Some([call |-> "predict_next_round",
                               player_id |-> player_id, season |-> season,
                               next_round |-> next_round, lookback_games |-> lookback_games,
                               result |-> predict_next_round(players, scores, pms, matches,
                                              player_id, season, next_round, lookback_games)])
        /\ op' = "predict"
        /\ UNCHANGED <<importVars, scoringVars, plannerVars, generation>>

\* the context of a request: none; a home game against B at a listed venue; an
\* away game against a team that has played no match
Contexts ==
    {[opponent |-> None, is_home |-> None, venue |-> None],
     [opponent |-> Some("B"), is_home |-> Some(TRUE), venue |-> Some("Suncorp Stadium")],
     [opponent |-> Some("C"), is_home |-> Some(FALSE), venue |-> Some("AAMI Park")]}

\* no trained model loaded, or one that returns 42.0 for the feature vector
Models == {None, Some(420)}

\* AdvancedPredictor(db).predict(player_id, season, next_round, opponent, is_home, venue)
AdvancedPredict ==
    \E player_id \in {1, 3}, season \in Seasons, next_round \in 1..(MaxRound + 1),
       context \in Contexts, model \in Models :
        /\ prediction = None
        /\ prediction' = Some([call |-> "advanced_predict",
                               player_id |-> player_id, season |-> season,
                               next_round |-> next_round, context |-> context,
                               model |-> model,
                               result |-> advanced_predict(players, scores, matches,
                                              player_id, season, next_round, context, model)])
        /\ op' = "advanced_predict"
        /\ UNCHANGED <<importVars, scoringVars, plannerVars, generation>>

\* the caller has taken the result
Return ==
    /\ prediction # None
    /\ prediction' = None
    /\ op' = "return"
    /\ UNCHANGED <<importVars, scoringVars, plannerVars, generation>>

PredictorInit ==
    /\ db_rules \in [Seasons -> {"none"}]
    /\ engine = None /\ stats = None /\ points = None /\ error = None
    /\ known = None /\ memo = None
    /\ op = "init"
    /\ players = <<[name |-> "p1", team |-> "A"], [name |-> "p2", team |-> "B"]>>
    /\ matches = <<>> /\ pms = <<>> /\ scores = <<>> /\ scored_with = {}
    /\ prediction = None /\ generation = None
    /\ projections = <<>> /\ prices = <<>> /\ advice = None /\ coverage = None

PredictorNext ==
    \/ PlayRound
    \/ OtherRows
    \/ Predict
    \/ AdvancedPredict
    \/ Return

SpecPredictor == PredictorInit /\ [][PredictorNext]_vars

(***************************************************************************)
(*            PlayerPredictor.generate_all_projections                     *)
(* The loop over the active players, one step per predict_next_round and   *)
(* one per save_projection, the players taken in any order and their steps *)
(* interleaved.                                                            *)
(***************************************************************************)
DefaultLookback == 5

\* the database a step reads
Database ==
    [players |-> players, scores |-> scores, pms |-> pms, matches |-> matches,
     projections |-> projections]

\* a prediction that copies the projection another player already has for the round
player_prediction_copying(db, player_id, season, next_round, lookback_games) ==
    LET own == predict_next_round(db.players, db.scores, db.pms, db.matches, player_id,
                                  season, next_round, lookback_games)
        others == {id \in 1..Len(db.projections) :
                      /\ db.projections[id].player_id # player_id
                      /\ db.projections[id].season = season
                      /\ db.projections[id].round = next_round}
    IN  IF others = {} THEN own
        ELSE [own EXCEPT !.predicted_points =
                 db.projections[CHOOSE id \in others : TRUE].predicted_points]

\* self.predict_next_round(player.id, season, next_round) on the session's database
player_prediction(db, player_id, season, next_round, lookback_games) ==
    predict_next_round(db.players, db.scores, db.pms, db.matches, player_id, season,
                       next_round, lookback_games)

\* a save that adds no row when the player already has one for the round
save_projection_once(projection_table, player_id, season, round_num, predicted_points, confidence) ==
    IF \E id \in 1..Len(projection_table) :
           /\ projection_table[id].player_id = player_id
           /\ projection_table[id].season = season
           /\ projection_table[id].round = round_num
    THEN projection_table
    ELSE Append(projection_table,
                [player_id |-> player_id, season |-> season, round |-> round_num,
                 predicted_points |-> predicted_points, confidence |-> confidence])

\* PlayerPredictor.save_projection: the projections table after add and commit
save_projection(projection_table, player_id, season, round_num, predicted_points, confidence) ==
    Append(projection_table,
           [player_id |-> player_id, season |-> season, round |-> round_num,
            predicted_points |-> predicted_points, confidence |-> confidence])

\* db.query(Player).filter(Player.active == True)
active_players(player_table) == {id \in 1..Len(player_table) : player_table[id].active}

\* ---- the data a generation runs on ----
GeneratePlayers ==
    <<[name |-> "p1", team |-> "A", active |-> TRUE],
      [name |-> "p2", team |-> "B", active |-> TRUE],
      [name |-> "p3", team |-> "A", active |-> FALSE]>>

\* the games of a player in rounds 1 and 2 of the current season
Histories ==
    {<<>>,
     <<[points |-> 455, minutes |-> None]>>,
     <<[points |-> 0, minutes |-> Some(80)], [points |-> 1000, minutes |-> Some(35)]>>}

GenerateRounds == {2, 3}

\* the rows of rounds 1 and 2 for the histories of players 1 and 2
season_rows(histories) ==
    LET played == [k \in 1..4 |->
                      LET player_id == ((k - 1) % 2) + 1
                          round == ((k - 1) \div 2) + 1
                      IN  IF Len(histories[player_id]) >= round
                          THEN GameRows(player_id, round, CurrentSeason, round,
                                        histories[player_id][round])
                          ELSE [scores |-> <<>>, pms |-> <<>>]]
    IN  [scores |-> played[1].scores \o played[2].scores \o played[3].scores
                      \o played[4].scores,
         pms |-> played[1].pms \o played[2].pms \o played[3].pms \o played[4].pms]

\* generate_all_projections(season, next_round) is called: the active players are
\* queried
StartGeneration ==
    \E next_round \in GenerateRounds :
        /\ generation = None
        /\ advice = None
        /\ Len(projections) + Cardinality(active_players(players)) <= MaxProjections
        /\ generation' =
               Some([season |-> CurrentSeason, next_round |-> next_round,
                     base |-> Len(projections),
                     reference |-> [id \in active_players(players) |->
                                       player_prediction(Database, id, CurrentSeason,
                                                         next_round, DefaultLookback)],
                     todo |-> active_players(players),
                     in_flight |-> {},
                     projections_created |-> 0])
        /\ op' = "start_generation"
        /\ UNCHANGED <<prediction, scoringVars, importVars, plannerVars>>

\* predict_next_round for one of the players not yet processed
PredictPlayer ==
    /\ generation # None
    /\ \E player_id \in Val(generation).todo :
           LET g == Val(generation)
               result == player_prediction(Database, player_id, g.season, g.next_round,
                                           DefaultLookback)
           IN  generation' = Some([g EXCEPT
                   !.todo = @ \ {player_id},
                   !.in_flight = @ \cup {[player_id |-> player_id, result |-> result]}])
    /\ op' = "predict_player"
    /\ UNCHANGED <<prediction, scoringVars, importVars, plannerVars>>

\* save_projection for a player whose prediction has been made
SavePlayer ==
    /\ generation # None
    /\ \E entry \in Val(generation).in_flight :
           LET g == Val(generation)
           IN  /\ projections' = save_projection(projections, entry.player_id, g.season,
                                     g.next_round, entry.result.predicted_points,
                                     entry.result.confidence)
               /\ generation' = Some([g EXCEPT
                      !.in_flight = @ \ {entry},
                      !.projections_created = @ + 1])
    /\ op' = "save_player"
    /\ UNCHANGED <<prediction, prices, advice, coverage, scoringVars, importVars>>

\* every player has been processed: projections_created is returned
FinishGeneration ==
    /\ generation # None
    /\ Val(generation).todo = {}
    /\ Val(generation).in_flight = {}
    /\ generation' = None
    /\ op' = "finish_generation"
    /\ UNCHANGED <<prediction, scoringVars, importVars, plannerVars>>

GenerateInit ==
    /\ db_rules \in [Seasons -> {"none"}]
    /\ engine = None /\ stats = None /\ points = None /\ error = None
    /\ known = None /\ memo = None
    /\ op = "init"
    /\ players = GeneratePlayers
    /\ matches = <<[season |-> CurrentSeason, round |-> 1, home_team |-> "A",
                    away_team |-> "B"],
                   [season |-> CurrentSeason, round |-> 2, home_team |-> "A",
                    away_team |-> "B"]>>
    /\ \E h1 \in Histories, h2 \in Histories :
           /\ scores = season_rows(<<h1, h2>>).scores
           /\ pms = season_rows(<<h1, h2>>).pms
    /\ scored_with = {}
    /\ prediction = None /\ generation = None
    /\ projections = <<>> /\ prices = <<>> /\ advice = None /\ coverage = None

GenerateNext ==
    \/ StartGeneration
    \/ PredictPlayer
    \/ SavePlayer
    \/ FinishGeneration

SpecGenerate == GenerateInit /\ [][GenerateNext]_vars

(***************************************************************************)
(* generate_all_projections when a step raises: the except clause of the   *)
(* loop prints the error and the loop goes on with the next player.        *)
(***************************************************************************)
\* predict_next_round raises for the player (a database error, a row it cannot
\* add up): nothing is saved for the player and nothing is counted
PredictFails ==
    /\ generation # None
    /\ \E player_id \in Val(generation).todo :
           generation' = Some([Val(generation) EXCEPT !.todo = @ \ {player_id}])
    /\ op' = "predict_fails"
    /\ UNCHANGED <<prediction, scoringVars, importVars, plannerVars>>

\* save_projection raises for the player: the commit fails, the session rolls
\* the pending row back, and projections_created is not incremented
SaveFails ==
    /\ generation # None
    /\ \E entry \in Val(generation).in_flight :
           generation' = Some([Val(generation) EXCEPT !.in_flight = @ \ {entry}])
    /\ op' = "save_fails"
    /\ UNCHANGED <<prediction, scoringVars, importVars, plannerVars>>

MaxFailingBase == 2    \* rows the projections table holds when a call starts

\* generate_all_projections is called on a table of at most MaxFailingBase rows
StartFailingGeneration ==
    /\ Len(projections) <= MaxFailingBase
    /\ StartGeneration

GenerateFailingNext ==
    \/ StartFailingGeneration
    \/ PredictPlayer
    \/ PredictFails
    \/ SavePlayer
    \/ SaveFails
    \/ FinishGeneration

SpecGenerateFailing == GenerateInit /\ [][GenerateFailingNext]_vars

(***************************************************************************)
(*                          TEAM OPTIMIZER                                 *)
(* predicted_points in tenths, confidence in hundredths, so a score        *)
(* (predicted_points * confidence) is in thousandths; prices in thousands. *)
(***************************************************************************)
Reverse(seq) == [i \in 1..Len(seq) |-> seq[Len(seq) + 1 - i]]

\* Query.all() without ORDER BY: the rows come in id order or in the opposite order
QueryOrders == {"id", "reverse"}
in_order(ids, order) == IF order = "id" THEN ids ELSE Reverse(ids)

\* list.sort(key=..., reverse=True): by key[i] descending, equal keys keep their order
sorted_desc(seq, key) ==
    LET order == order_by_desc([i \in 1..Len(seq) |-> i], key)
    IN  [i \in 1..Len(seq) |-> seq[order[i]]]

\* list.sort(key=...): by key[i] ascending, equal keys keep their order
sorted_asc(seq, key) == sorted_desc(seq, [i \in 1..Len(seq) |-> 0 - key[i]])

\* seq[:n] of Python: a negative n counts from the end
py_slice(seq, n) == IF n >= 0 THEN limit(seq, n) ELSE limit(seq, Max(0, Len(seq) + n))

\* the elements of seq at the indices in hits, in order
keep_only(seq, hits) ==
    LET ids == select_from(seq, hits, 1)
    IN  [k \in 1..Len(ids) |-> seq[ids[k]]]

\* a query that does not filter on the squad
projection_query_any(projection_table, player_table, player_ids, listed, season, round_num) ==
    LET hits == {id \in 1..Len(projection_table) :
                    /\ projection_table[id].player_id \in 1..Len(player_table)
                    /\ projection_table[id].season = season
                    /\ projection_table[id].round = round_num}
    IN  select_from(projection_table, hits, 1)

\* ids of the projections of the players listed (or, with listed = FALSE, of the
\* players not listed) for the season and round, joined with their player
projection_query(projection_table, player_table, player_ids, listed, season, round_num) ==
    LET hits == {id \in 1..Len(projection_table) :
                    /\ projection_table[id].player_id \in 1..Len(player_table)
                    /\ (projection_table[id].player_id \in player_ids) = listed
                    /\ projection_table[id].season = season
                    /\ projection_table[id].round = round_num}
    IN  select_from(projection_table, hits, 1)

scored_player(proj) ==
    [player_id |-> proj.player_id, predicted_points |-> proj.predicted_points,
     confidence |-> proj.confidence, score |-> proj.predicted_points * proj.confidence]

\* a sort that puts the lowest score first
sort_scored_players_ascending(scored_players) ==
    sorted_asc(scored_players, [i \in 1..Len(scored_players) |-> scored_players[i].score])

\* a sort that lists equal scores in the opposite of their input order
sort_scored_players_ties_reversed(scored_players) ==
    LET reversed == Reverse(scored_players)
    IN  sorted_desc(reversed, [i \in 1..Len(reversed) |-> reversed[i].score])

sort_scored_players(scored_players) ==
    sorted_desc(scored_players, [i \in 1..Len(scored_players) |-> scored_players[i].score])

\* TeamOptimizer.suggest_captain on the rows (projection ids) its query returned
suggest_captain(projection_table, rows) ==
    IF rows = <<>> THEN [captain |-> None, vice_captain |-> None]
    ELSE LET scored_players ==
                 sort_scored_players([i \in 1..Len(rows) |->
                                         scored_player(projection_table[rows[i]])])
         IN  [captain |-> Some(scored_players[1]),
              vice_captain |-> IF Len(scored_players) > 1 THEN Some(scored_players[2])
                               ELSE None]

DefaultPrice == 400
Overspend == 100
BottomPerformers == 3
TopAvailable == 10

\* outerjoin(FantasyPriceHistory): every projection row with each of last round's
\* price rows of its player, or with None when there is none
RECURSIVE outer_join(_, _, _, _, _)
outer_join(projection_table, price_table, ids, season, round_num) ==
    IF ids = <<>> THEN <<>>
    ELSE LET proj == projection_table[Head(ids)]
             hits == {k \in 1..Len(price_table) :
                         /\ price_table[k].player_id = proj.player_id
                         /\ price_table[k].season = season
                         /\ price_table[k].round = round_num - 1}
             hist == select_from(price_table, hits, 1)
             joined == IF hist = <<>> THEN <<[proj |-> proj, price_hist |-> None]>>
                       ELSE [k \in 1..Len(hist) |->
                                [proj |-> proj, price_hist |-> Some(price_table[hist[k]])]]
         IN  joined \o outer_join(projection_table, price_table, Tail(ids), season, round_num)

\* an entry of squad_values / available_values; value = predicted_points / max(1, price)
\* * 100 is kept as the pair (predicted_points, price)
value_entry(row) ==
    [player_id |-> row.proj.player_id, predicted_points |-> row.proj.predicted_points,
     price |-> IF row.price_hist = None THEN DefaultPrice ELSE Val(row.price_hist).price]

\* a["value"] < b["value"]
value_less(a, b) ==
    a.predicted_points * Max(1, b.price) < b.predicted_points * Max(1, a.price)

\* a sort key that orders the entries as their values do
value_key(entries) ==
    [i \in 1..Len(entries) |->
        Cardinality({j \in 1..Len(entries) : value_less(entries[j], entries[i])})]

\* a filter that lets every price through
affordable_any(price, bank_balance) == TRUE

affordable(price, bank_balance) == price <= bank_balance + Overspend

\* a test that asks for both gains
good_trade_both(trade_out, trade_in) ==
    LET q_out == Max(1, trade_out.price)
        q_in == Max(1, trade_in.price)
    IN  /\ 20 * (trade_in.predicted_points * q_out - trade_out.predicted_points * q_in)
              > q_in * q_out
        /\ trade_in.predicted_points - trade_out.predicted_points > 100

\* value_gain > 0.5 or points_gain > 10
good_trade(trade_out, trade_in) ==
    LET q_out == Max(1, trade_out.price)
        q_in == Max(1, trade_in.price)
    IN  \/ 20 * (trade_in.predicted_points * q_out - trade_out.predicted_points * q_in)
              > q_in * q_out
        \/ trade_in.predicted_points - trade_out.predicted_points > 100

trade_suggestion(trade_out, trade_in) ==
    [trade_out_id |-> trade_out.player_id, trade_in_id |-> trade_in.player_id,
     projected_gain |-> trade_in.predicted_points - trade_out.predicted_points,
     price_difference |-> trade_in.price - trade_out.price]

\* the locals of suggest_trades before the final sort: squad_values[:3],
\* available_values[:10] and trade_suggestions
trade_candidates(squad_projections, available_projections, bank_balance) ==
    LET squad_entries == [i \in 1..Len(squad_projections) |->
                             value_entry(squad_projections[i])]
        squad_values == sorted_asc(squad_entries, value_key(squad_entries))
        all_entries == [i \in 1..Len(available_projections) |->
                           value_entry(available_projections[i])]
        available_entries ==
            keep_only(all_entries, {i \in 1..Len(all_entries) :
                                       affordable(all_entries[i].price, bank_balance)})
        available_values == sorted_desc(available_entries, value_key(available_entries))
        outs == py_slice(squad_values, BottomPerformers)
        ins == py_slice(available_values, TopAvailable)
        pairs == [k \in 1..(Len(outs) * Len(ins)) |->
                     [trade_out |-> outs[((k - 1) \div Len(ins)) + 1],
                      trade_in |-> ins[((k - 1) % Len(ins)) + 1]]]
        good == keep_only(pairs, {k \in 1..Len(pairs) :
                                     good_trade(pairs[k].trade_out, pairs[k].trade_in)})
    IN  [outs |-> outs, ins |-> ins,
         trade_suggestions |-> [k \in 1..Len(good) |->
                                   trade_suggestion(good[k].trade_out, good[k].trade_in)]]

\* trade_suggestions.sort(key=projected_gain, reverse=True)
rank_suggestions(trade_suggestions) ==
    sorted_desc(trade_suggestions,
                [k \in 1..Len(trade_suggestions) |-> trade_suggestions[k].projected_gain])

\* TeamOptimizer.suggest_trades on the joined rows its two queries returned
suggest_trades(squad_projections, available_projections, bank_balance, limit_) ==
    py_slice(rank_suggestions(trade_candidates(squad_projections, available_projections,
                                               bank_balance).trade_suggestions),
             limit_)

\* ---- the data the optimizer runs on ----
SquadPlayers ==
    <<[name |-> "p1", team |-> "Broncos", positions |-> "HOK"],
      [name |-> "p2", team |-> "Storm", positions |-> "HOK"],
      [name |-> "p3", team |-> "Panthers", positions |-> "MID"],
      [name |-> "p4", team |-> "Eels", positions |-> "MID"]>>

ThisRound == 6

\* what one run of the predictor stored: <<player_id, predicted_points, confidence>>;
\* a player without a projection failed or was not active
ProjectionRuns ==
    {<< <<1, 600, 80>>, <<2, 480, 100>>, <<3, 350, 30>>, <<4, 800, 50>> >>,
     << <<1, 350, 30>>, <<3, 900, 90>> >>}

\* the price rows published: last round's prices of players 1, 3 and 4 and this
\* round's price of player 3; or none
PriceTables ==
    {<<[player_id |-> 3, season |-> CurrentSeason, round |-> ThisRound - 1, price |-> 450],
       [player_id |-> 4, season |-> CurrentSeason, round |-> ThisRound - 1, price |-> 700],
       [player_id |-> 1, season |-> CurrentSeason, round |-> ThisRound - 1, price |-> 300],
       [player_id |-> 3, season |-> CurrentSeason, round |-> ThisRound, price |-> 100]>>}

Squads == SUBSET (1..Len(SquadPlayers))
BankBalances == {0, 300, 350}
Limits == {-1, 1, 5}

\* save_projection for every player a run of the predictor covered
SaveProjections ==
    \E run \in ProjectionRuns, round_num \in {ThisRound, ThisRound + 1} :
        /\ advice = None
        /\ Len(projections) + Len(run) <= MaxProjections
        /\ projections' = projections \o
               [i \in 1..Len(run) |->
                   [player_id |-> run[i][1], season |-> CurrentSeason, round |-> round_num,
                    predicted_points |-> run[i][2], confidence |-> run[i][3]]]
        /\ op' = "save_projections"
        /\ UNCHANGED <<prices, advice, coverage>>
        /\ UNCHANGED <<scoringVars, importVars, predictorVars>>

PublishPrices ==
    \E table \in PriceTables :
        /\ advice = None
        /\ prices = <<>>
        /\ projections = <<>>
        /\ prices' = table
        /\ op' = "prices"
        /\ UNCHANGED <<projections, advice, coverage>>
        /\ UNCHANGED <<scoringVars, importVars, predictorVars>>

\* TeamOptimizer(db).suggest_captain(player_ids, season, round_num)
SuggestCaptain ==
    \E player_ids \in Squads, season \in Seasons, order \in QueryOrders :
        LET rows == in_order(projection_query(projections, players, player_ids, TRUE,
                                              season, ThisRound), order)
        IN  /\ advice = None
            /\ advice' = Some([call |-> "suggest_captain", player_ids |-> player_ids,
                               season |-> season, round_num |-> ThisRound, rows |-> rows,
                               result |-> suggest_captain(projections, rows)])
            /\ op' = "suggest_captain"
            /\ UNCHANGED <<projections, prices, coverage>>
            /\ UNCHANGED <<scoringVars, importVars, predictorVars>>

\* TeamOptimizer(db).suggest_trades(current_squad, bank_balance, season, round_num, limit)
SuggestTrades ==
    \E current_squad \in Squads, bank_balance \in BankBalances, limit_ \in Limits,
       order \in QueryOrders :
        LET squad_ids == in_order(projection_query(projections, players, current_squad,
                                      TRUE, CurrentSeason, ThisRound), order)
            available_ids == in_order(projection_query(projections, players, current_squad,
                                          FALSE, CurrentSeason, ThisRound), order)
            squad_projections == outer_join(projections, prices, squad_ids,
                                            CurrentSeason, ThisRound)
            available_projections == outer_join(projections, prices, available_ids,
                                                CurrentSeason, ThisRound)
        IN  /\ advice = None
            /\ advice' = Some([call |-> "suggest_trades", current_squad |-> current_squad,
                               bank_balance |-> bank_balance, season |-> CurrentSeason,
                               round_num |-> ThisRound, limit |-> limit_,
                               candidates |-> trade_candidates(squad_projections,
                                                 available_projections, bank_balance),
                               result |-> suggest_trades(squad_projections,
                                             available_projections, bank_balance, limit_)])
            /\ op' = "suggest_trades"
            /\ UNCHANGED <<projections, prices, coverage>>
            /\ UNCHANGED <<scoringVars, importVars, predictorVars>>

\* the caller has taken the advice
TakeAdvice ==
    /\ advice # None
    /\ advice' = None
    /\ op' = "advice_taken"
    /\ UNCHANGED <<projections, prices, coverage>>
    /\ UNCHANGED <<scoringVars, importVars, predictorVars>>

OptimizerInit ==
    /\ db_rules \in [Seasons -> {"none"}]
    /\ engine = None /\ stats = None /\ points = None /\ error = None
    /\ known = None /\ memo = None
    /\ op = "init"
    /\ players = SquadPlayers
    /\ matches = <<>> /\ pms = <<>> /\ scores = <<>> /\ scored_with = {}
    /\ prediction = None /\ generation = None
    /\ projections = <<>> /\ prices = <<>> /\ advice = None /\ coverage = None

OptimizerNext ==
    \/ SaveProjections
    \/ PublishPrices
    \/ SuggestCaptain
    \/ SuggestTrades
    \/ TakeAdvice

SpecOptimizer == OptimizerInit /\ [][OptimizerNext]_vars

(***************************************************************************)
(*                            BYE PLANNER                                  *)
(***************************************************************************)
ByeRounds == 13..17

ReplacementRows == 5
CoveredByBench == 2
DefaultTrades == 10
AggressiveImpact == 8
DefaultHorizon == 8

\* ByePlanner.bye_schedule
bye_schedule ==
    [r \in ByeRounds |->
        CASE r = 13 -> <<"Penrith Panthers", "Melbourne Storm", "Brisbane Broncos",
                         "Cronulla Sharks">>
          [] r = 14 -> <<"Sydney Roosters", "Parramatta Eels", "South Sydney Rabbitohs",
                         "Manly Sea Eagles">>
          [] r = 15 -> <<"Newcastle Knights", "North Queensland Cowboys",
                         "Canberra Raiders", "New Zealand Warriors">>
          [] r = 16 -> <<"Gold Coast Titans", "St George Illawarra Dragons">>
          [] r = 17 -> <<"Canterbury Bulldogs", "Wests Tigers">>]

Range(seq) == {seq[i] : i \in 1..Len(seq)}

\* the first round of the schedule that lists the team, 0 when none does
get_team_bye_round(team) ==
    LET listed == {r \in ByeRounds : team \in Range(bye_schedule[r])}
    IN  IF listed = {} THEN 0 ELSE CHOOSE r \in listed : \A q \in listed : r <= q

\* ByePlanner.analyze_squad_bye_coverage on the rows (player ids) its query returned
bye_distribution(player_table, rows) ==
    [round_num \in ByeRounds |->
        LET on_bye == keep_only(rows, {i \in 1..Len(rows) :
                          get_team_bye_round(player_table[rows[i]].team) = round_num})
            available == keep_only(rows, {i \in 1..Len(rows) :
                             get_team_bye_round(player_table[rows[i]].team) # round_num})
        IN  [teams_on_bye |-> bye_schedule[round_num],
             players_on_bye |-> [i \in 1..Len(on_bye) |->
                                    [id |-> on_bye[i],
                                     name |-> player_table[on_bye[i]].name,
                                     team |-> player_table[on_bye[i]].team,
                                     position |-> player_table[on_bye[i]].positions]],
             players_available |-> available]]

\* db.query(Player).filter(Player.id.in_(squad)): the ids of the rows found
players_in(player_table, squad) ==
    select_from(player_table, {id \in 1..Len(player_table) : id \in Range(squad)}, 1)

analyze_squad_bye_coverage(player_table, squad, order) ==
    bye_distribution(player_table, in_order(players_in(player_table, squad), order))

\* ByePlanner._get_all_teams
all_teams == UNION {Range(bye_schedule[r]) : r \in ByeRounds}

\* Player.positions.like('%position%') on the position strings in use
like_contains(positions, position) ==
    \/ positions = position
    \/ <<positions, position>> \in {<<"HOK,MID", "HOK">>, <<"HOK,MID", "MID">>}

\* ByePlanner._find_replacement: the first row of the join ordered by
\* predicted_points descending (rows with equal points in the order the
\* database returns them), None when the join is empty
find_replacement(player_table, projection_table, position, active_teams, season, round_num, order) ==
    LET hits == {id \in 1..Len(projection_table) :
                    /\ projection_table[id].player_id \in 1..Len(player_table)
                    /\ player_table[projection_table[id].player_id].team \in active_teams
                    /\ like_contains(player_table[projection_table[id].player_id].positions,
                                     position)
                    /\ projection_table[id].season = season
                    /\ projection_table[id].round = round_num}
        key == [id \in 1..Len(projection_table) |-> projection_table[id].predicted_points]
        rows == limit(order_by_desc(in_order(select_from(projection_table, hits, 1), order),
                                    key), ReplacementRows)
    IN  IF rows = <<>> THEN None
        ELSE LET proj == projection_table[rows[1]]
                 player == player_table[proj.player_id]
             IN  Some([id |-> proj.player_id, name |-> player.name, team |-> player.team,
                       position |-> player.positions,
                       predicted_points |-> proj.predicted_points,
                       confidence |-> proj.confidence])

\* the rounds in schedule order, not sorted by their players on bye
critical_rounds_unsorted(bye_analysis) == [i \in 1..Cardinality(ByeRounds) |-> 12 + i]

\* sorted(bye_analysis.items(), key=len(players_on_bye), reverse=True), as round numbers
critical_rounds(bye_analysis) ==
    LET rounds == [i \in 1..Cardinality(ByeRounds) |-> 12 + i]
    IN  sorted_desc(rounds, [i \in 1..Len(rounds) |->
                                Len(bye_analysis[rounds[i]].players_on_bye)])

\* an inner loop that never looks at trades_available
RECURSIVE bye_players_loop_unlimited(_, _, _, _, _, _, _, _, _)
bye_players_loop_unlimited(player_table, projection_table, round_data, round_num, bye_players, season, trades_available, order, trade_suggestions) ==
    IF bye_players = <<>> THEN trade_suggestions
    ELSE LET bye_player == Head(bye_players)
             active_teams == all_teams \ Range(round_data.teams_on_bye)
             replacement == find_replacement(player_table, projection_table,
                                bye_player.position, active_teams, season, round_num, order)
             suggested ==
                 IF replacement = None THEN trade_suggestions
                 ELSE Append(trade_suggestions,
                             [round |-> round_num - 1,
                              trade_out |-> [id |-> bye_player.id, name |-> bye_player.name,
                                             team |-> bye_player.team,
                                             bye_round |-> round_num],
                              trade_in |-> Val(replacement),
                              on_bye |-> Len(round_data.players_on_bye),
                              priority |-> IF Len(round_data.players_on_bye) > 3
                                           THEN "high" ELSE "medium"])
         IN  bye_players_loop_unlimited(player_table, projection_table, round_data,
                 round_num, Tail(bye_players), season, trades_available, order, suggested)

\* the inner loop of suggest_bye_trades over players_on_bye[:2] of one round;
\* trades_used is Len(trade_suggestions)
RECURSIVE bye_players_loop(_, _, _, _, _, _, _, _, _)
bye_players_loop(player_table, projection_table, round_data, round_num, bye_players, season, trades_available, order, trade_suggestions) ==
    IF bye_players = <<>> THEN trade_suggestions
    ELSE IF Len(trade_suggestions) >= trades_available THEN trade_suggestions
    ELSE LET bye_player == Head(bye_players)
             active_teams == all_teams \ Range(round_data.teams_on_bye)
             replacement == find_replacement(player_table, projection_table,
                                bye_player.position, active_teams, season, round_num, order)
             suggested ==
                 IF replacement = None THEN trade_suggestions
                 ELSE Append(trade_suggestions,
                             [round |-> round_num - 1,
                              trade_out |-> [id |-> bye_player.id, name |-> bye_player.name,
                                             team |-> bye_player.team,
                                             bye_round |-> round_num],
                              trade_in |-> Val(replacement),
                              on_bye |-> Len(round_data.players_on_bye),
                              priority |-> IF Len(round_data.players_on_bye) > 3
                                           THEN "high" ELSE "medium"])
         IN  bye_players_loop(player_table, projection_table, round_data, round_num,
                              Tail(bye_players), season, trades_available, order, suggested)

\* the outer loop of suggest_bye_trades over critical_rounds
RECURSIVE bye_rounds_loop(_, _, _, _, _, _, _, _)
bye_rounds_loop(player_table, projection_table, bye_analysis, rounds, season, trades_available, order, trade_suggestions) ==
    IF rounds = <<>> THEN trade_suggestions
    ELSE LET round_data == bye_analysis[Head(rounds)]
             players_on_bye == round_data.players_on_bye
         IN  IF Len(players_on_bye) <= CoveredByBench
             THEN bye_rounds_loop(player_table, projection_table, bye_analysis, Tail(rounds),
                                  season, trades_available, order, trade_suggestions)
             ELSE bye_rounds_loop(player_table, projection_table, bye_analysis, Tail(rounds),
                      season, trades_available, order,
                      bye_players_loop(player_table, projection_table, round_data,
                          Head(rounds), py_slice(players_on_bye, Min(2, Len(players_on_bye))),
                          season, trades_available, order, trade_suggestions))

\* ByePlanner.suggest_bye_trades
suggest_bye_trades(player_table, projection_table, squad, season, trades_available, order) ==
    LET bye_analysis == analyze_squad_bye_coverage(player_table, squad, order)
    IN  bye_rounds_loop(player_table, projection_table, bye_analysis,
                        critical_rounds(bye_analysis), season, trades_available, order, <<>>)

\* a count that looks at the first bye round only
total_bye_players_first_round(bye_analysis) == Len(bye_analysis[13].players_on_bye)

\* sum(len(r['players_on_bye']) for r in bye_analysis.values())
total_bye_players(bye_analysis) ==
    SumSeq([i \in 1..Cardinality(ByeRounds) |-> Len(bye_analysis[12 + i].players_on_bye)])

\* a plan that lists the alternative from an impact of 8 on
create_multi_week_plan_from_eight(player_table, projection_table, squad, season, current_round, horizon, order) ==
    LET bye_analysis == analyze_squad_bye_coverage(player_table, squad, order)
        trades == suggest_bye_trades(player_table, projection_table, squad, season,
                                     DefaultTrades, order)
        total == total_bye_players(bye_analysis)
    IN  [current_round |-> current_round,
         planning_horizon |-> horizon,
         bye_analysis |-> bye_analysis,
         recommended_trades |-> trades,
         total_bye_impact |-> total,
         alternative_strategies |->
             IF total >= AggressiveImpact
             THEN <<[strategy |-> "aggressive_trading",
                     trades_recommended |-> Len(trades) + 2]>>
             ELSE <<>>]

\* ByePlanner.create_multi_week_plan
create_multi_week_plan(player_table, projection_table, squad, season, current_round, horizon, order) ==
    LET bye_analysis == analyze_squad_bye_coverage(player_table, squad, order)
        trades == suggest_bye_trades(player_table, projection_table, squad, season,
                                     DefaultTrades, order)
        total == total_bye_players(bye_analysis)
    IN  [current_round |-> current_round,
         planning_horizon |-> horizon,
         bye_analysis |-> bye_analysis,
         recommended_trades |-> trades,
         total_bye_impact |-> total,
         alternative_strategies |->
             IF total > AggressiveImpact
             THEN <<[strategy |-> "aggressive_trading",
                     trades_recommended |-> Len(trades) + 2]>>
             ELSE <<>>]

\* ---- the data the bye planner runs on ----
ByePlayers ==
    <<[name |-> "p1", team |-> "Penrith Panthers", positions |-> "HOK"],
      [name |-> "p2", team |-> "Melbourne Storm", positions |-> "HOK"],
      [name |-> "p3", team |-> "Brisbane Broncos", positions |-> "MID"],
      [name |-> "p4", team |-> "Sydney Roosters", positions |-> "HOK,MID"],
      [name |-> "p5", team |-> "Gold Coast Titans", positions |-> "MID"],
      [name |-> "p6", team |-> "Dolphins", positions |-> "MID"]>>

\* a squad as the caller passes it: a list of ids; the last id matches no player
SquadIds == 1..(Len(ByePlayers) + 1)
SquadLists == SeqsUpTo(SquadIds, MaxSquad)

\* ByePlanner(db).analyze_squad_bye_coverage(squad, season)
AnalyzeSquad ==
    \E squad \in SquadLists, order \in QueryOrders :
        /\ coverage = None
        /\ coverage' = Some([call |-> "analyze_squad_bye_coverage", squad |-> squad,
                             season |-> CurrentSeason,
                             result |-> analyze_squad_bye_coverage(players, squad, order)])
        /\ op' = "analyze_squad"
        /\ UNCHANGED <<projections, prices, advice>>
        /\ UNCHANGED <<scoringVars, importVars, predictorVars>>

\* the caller has taken the analysis
TakeCoverage ==
    /\ coverage # None
    /\ coverage' = None
    /\ op' = "coverage_taken"
    /\ UNCHANGED <<projections, prices, advice>>
    /\ UNCHANGED <<scoringVars, importVars, predictorVars>>

\* what the predictor stored for the bye rounds:
\* <<player_id, round, predicted_points, confidence>>
ByeProjectionRuns ==
    {<< <<4, 13, 500, 80>>, <<5, 13, 600, 70>>, <<1, 13, 900, 90>>, <<6, 13, 950, 90>>,
        <<2, 14, 700, 80>>, <<3, 14, 650, 60>> >>,
     << <<5, 13, 600, 70>>, <<3, 13, 400, 50>> >>}

PlanRounds == {12}

\* save_projection for the players and rounds a run of the predictor covered
SaveByeProjections ==
    \E run \in ByeProjectionRuns :
        /\ coverage = None
        /\ projections = <<>>
        /\ projections' = [i \in 1..Len(run) |->
                              [player_id |-> run[i][1], season |-> CurrentSeason,
                               round |-> run[i][2], predicted_points |-> run[i][3],
                               confidence |-> run[i][4]]]
        /\ op' = "save_projections"
        /\ UNCHANGED <<prices, advice, coverage>>
        /\ UNCHANGED <<scoringVars, importVars, predictorVars>>

\* ByePlanner(db).create_multi_week_plan(squad, season, current_round)
CreatePlan ==
    \E squad \in SquadLists, current_round \in PlanRounds, order \in QueryOrders :
        /\ coverage = None
        /\ coverage' = Some([call |-> "create_multi_week_plan", squad |-> squad,
                             season |-> CurrentSeason,
                             result |-> create_multi_week_plan(players, projections, squad,
                                            CurrentSeason, current_round, DefaultHorizon,
                                            order)])
        /\ op' = "create_plan"
        /\ UNCHANGED <<projections, prices, advice>>
        /\ UNCHANGED <<scoringVars, importVars, predictorVars>>

ByeInit ==
    /\ db_rules \in [Seasons -> {"none"}]
    /\ engine = None /\ stats = None /\ points = None /\ error = None
    /\ known = None /\ memo = None
    /\ op = "init"
    /\ players = ByePlayers
    /\ matches = <<>> /\ pms = <<>> /\ scores = <<>> /\ scored_with = {}
    /\ prediction = None /\ generation = None
    /\ projections = <<>> /\ prices = <<>> /\ advice = None /\ coverage = None

ByeNext ==
    \/ AnalyzeSquad
    \/ TakeCoverage
    \/ SaveByeProjections
    \/ CreatePlan

SpecBye == ByeInit /\ [][ByeNext]_vars

(***************************************************************************)
(*                     CLAIMS: SCORING ENGINE                              *)
(***************************************************************************)
Called == op \in {"calc", "validate"}

\* what one key contributes to the total, in thousandths of a point
Contribution(rules, st, k) ==
    IF k \notin DOMAIN rules THEN 0
    ELSE IF st[k] = None THEN 0
    ELSE Val(st[k]) * rules[k]

ExpectedTotal(rules, st) ==
    SumSeq([i \in 1..Len(StatKeys) |-> Contribution(rules, st, StatKeys[i])])

\* C1: after every call, for every stat line and every loaded rule set, the
\* points returned are the sum over the 16 mapped keys of count x coefficient
\* (nothing for a key without a rule, zero for a null count) rounded to one
\* decimal: a whole number of tenths at most half a tenth away from the sum.
C1_PointsAreRoundedRuleSum ==
    Called =>
        /\ points # None
        /\ 2 * Abs(100 * Val(points) - ExpectedTotal(Val(engine).rules, Val(stats))) <= 100

\* C1 witness: a null count, a key without a rule and a sum that rounding changes
\* (2 kick metres at 0.033) all occur in one scored line.
C1_Witness ==
    /\ op = "calc"
    /\ stats = Some(ImporterLine)
    /\ Val(engine).rules = SeedRules2024
    /\ points = Some(441)

\* C2: when no scoring rule exists for the engine's season, no points value is
\* ever returned: construction or the call fails with a configuration error.
C2_NoPointsWithoutRules ==
    ~(Called /\ engine # None /\ DOMAIN Val(engine).rules = {} /\ points # None)

\* C4: calls of one engine instance with the same stat line return the same
\* points whatever happened in between, and only construction sets the rules.
C4_SameLineSamePoints ==
    (Called /\ memo # None /\ stats = Some(Val(memo).stats)) => points = Some(Val(memo).points)

C4_DeterministicAndImmutable ==
    [][(engine' # engine => op' = "construct") /\ C4_SameLineSamePoints']_vars

\* C4 witness: the same line was scored again after the rule table of the
\* engine's season changed in the database.
C4_Witness ==
    /\ op = "calc"
    /\ memo # None /\ Val(memo).again /\ stats = Some(Val(memo).stats)
    /\ Val(engine).rules # load_scoring_rules(db_rules, Val(engine).season)

\* C5: with the 2024 coefficients of the test fixture the golden lines score
\* exactly 44.0 and 80.0, and validate_calculation returns 0 when the known
\* score equals the computed one.
Has2024Coefficients ==
    /\ engine # None
    /\ \A k \in TestRuleKeys :
          k \in DOMAIN Val(engine).rules /\ Val(engine).rules[k] = TestRules2024[k]

C5_GoldenCases ==
    (Called /\ Has2024Coefficients) =>
        /\ stats = Some(GoldenBasic) => points = Some(440)
        /\ stats = Some(GoldenPremium) => points = Some(800)
        /\ (op = "validate" /\ known = points) => error = Some(0)

C5_Witness ==
    /\ op = "validate" /\ Has2024Coefficients
    /\ stats = Some(GoldenBasic) /\ known = Some(440) /\ error = Some(0)

(***************************************************************************)
(*                       CLAIMS: DATA IMPORT                               *)
(***************************************************************************)
\* C3: every fantasy score computed during an import is computed with the
\* rule set of the stat line's own season, never with another season's.
C3_ScoredWithOwnSeason ==
    \A sw \in scored_with : sw[1] = sw[2]

(***************************************************************************)
(*                        CLAIMS: PREDICTOR                                *)
(***************************************************************************)
Predicted == prediction # None /\ Val(prediction).call = "predict_next_round"
Call == Val(prediction)

HasScoreBefore(player_id, season, next_round) ==
    \E i \in 1..Len(scores) :
        /\ scores[i].player_id = player_id
        /\ scores[i].season = season
        /\ scores[i].round < next_round

\* C6: for a player with no score record of the season before the target round,
\* predict_next_round returns 35.0 points, confidence 0.3 and method "no_history",
\* and does not raise.
C6_NoHistoryDefault ==
    (/\ Predicted
     /\ Call.player_id \in 1..Len(players)
     /\ ~HasScoreBefore(Call.player_id, Call.season, Call.next_round))
    => (/\ Call.result.status = "ok"
        /\ Call.result.predicted_points = 350
        /\ Call.result.confidence = 30
        /\ Call.result.method = "no_history")

\* C6 witness: the player has scores, but none of the season before the target round
C6_Witness ==
    /\ Predicted
    /\ Call.player_id = 1 /\ Call.season = 2024 /\ Call.next_round = 1
    /\ HasScoreBefore(1, 2024, 3) /\ HasScoreBefore(1, 2023, 2)
    /\ Call.result.status = "ok" /\ Call.result.method = "no_history"

\* C7: for every score history and every lookback window, the confidence
\* returned lies in [0.3, 1.0].
C7_ConfidenceInRange ==
    (Predicted /\ Call.result.status = "ok")
    => (30 <= Call.result.confidence /\ Call.result.confidence <= 100)

(***************************************************************************)
(*        project_team: projections on demand, then the captain            *)
(***************************************************************************)
\* the loop of project_team over player_ids: a projection is predicted and saved
\* for every player that has none for the season and round; a player that cannot
\* be predicted is skipped
RECURSIVE ensure_projections(_, _, _, _)
ensure_projections(db, player_ids, season, target_round) ==
    IF player_ids = <<>> THEN db.projections
    ELSE LET player_id == Head(player_ids)
             existing == {id \in 1..Len(db.projections) :
                             /\ db.projections[id].player_id = player_id
                             /\ db.projections[id].season = season
                             /\ db.projections[id].round = target_round}
             result == player_prediction(db, player_id, season, target_round,
                                         DefaultLookback)
             saved == IF existing # {} \/ result.status # "ok" THEN db.projections
                      ELSE save_projection(db.projections, player_id, season, target_round,
                                           result.predicted_points, result.confidence)
         IN  ensure_projections([db EXCEPT !.projections = saved], Tail(player_ids),
                                season, target_round)

\* the teams of a request: lists of player ids, the last one with an id that
\* matches no player
TeamRequests == {<<1, 2>>, <<2, 3>>, <<3, 4>>}

\* POST /api/team/project for the players and round of the request: the missing
\* projections are saved, then suggest_captain is called
ProjectTeam ==
    \E player_ids \in TeamRequests, target_round \in GenerateRounds, order \in QueryOrders :
        LET ensured == ensure_projections(Database, player_ids, CurrentSeason, target_round)
            rows == in_order(projection_query(ensured, players, Range(player_ids), TRUE,
                                              CurrentSeason, target_round), order)
        IN  /\ advice = None
            /\ generation = None
            /\ Len(projections) + Len(player_ids) <= MaxProjections
            /\ projections' = ensured
            /\ advice' = Some([call |-> "project_team", player_ids |-> player_ids,
                               season |-> CurrentSeason, round_num |-> target_round,
                               rows |-> rows, result |-> suggest_captain(ensured, rows)])
            /\ op' = "project_team"
            /\ UNCHANGED <<prices, coverage>>
            /\ UNCHANGED <<scoringVars, importVars, predictorVars>>

TeamProjectionNext ==
    \/ StartGeneration
    \/ PredictPlayer
    \/ SavePlayer
    \/ FinishGeneration
    \/ ProjectTeam
    \/ TakeAdvice

SpecTeamProjection == GenerateInit /\ [][TeamProjectionNext]_vars

(***************************************************************************)
(*         BYE PLANNER: trades for a full squad                            *)
(***************************************************************************)
\* players of teams with a bye in rounds 13 (1-3), 14 (4-7), 15 (8) and 16 (9), and
\* one of a team the schedule does not list
TradePlayers ==
    <<[name |-> "p1", team |-> "Penrith Panthers", positions |-> "HOK"],
      [name |-> "p2", team |-> "Melbourne Storm", positions |-> "HOK"],
      [name |-> "p3", team |-> "Brisbane Broncos", positions |-> "MID"],
      [name |-> "p4", team |-> "Sydney Roosters", positions |-> "HOK,MID"],
      [name |-> "p5", team |-> "Parramatta Eels", positions |-> "HOK"],
      [name |-> "p6", team |-> "South Sydney Rabbitohs", positions |-> "MID"],
      [name |-> "p7", team |-> "Manly Sea Eagles", positions |-> "MID"],
      [name |-> "p8", team |-> "Newcastle Knights", positions |-> "MID"],
      [name |-> "p9", team |-> "Gold Coast Titans", positions |-> "HOK,MID"],
      [name |-> "p10", team |-> "Dolphins", positions |-> "MID"]>>

\* a squad: the ids of seven or more of the players, as a list
TradeSquads ==
    {select_from(TradePlayers, ids, 1) :
        ids \in {chosen \in SUBSET (1..Len(TradePlayers)) : Cardinality(chosen) >= 7}}

TradesAvailable == {-1, 0, 3, DefaultTrades}

\* what the predictor stored for rounds 13 and 14:
\* <<player_id, round, predicted_points, confidence>>
TradeProjectionRuns ==
    {<< <<4, 13, 500, 80>>, <<5, 13, 700, 70>>, <<6, 13, 650, 90>>, <<10, 13, 950, 90>>,
        <<1, 14, 900, 80>>, <<2, 14, 900, 60>>, <<3, 14, 800, 60>>, <<8, 14, 600, 60>>,
        <<10, 14, 950, 90>> >>,
     << <<6, 13, 650, 90>>, <<8, 13, 640, 90>>, <<1, 14, 900, 80>>, <<9, 14, 300, 50>> >>}

SaveTradeProjections ==
    \E run \in TradeProjectionRuns :
        /\ coverage = None
        /\ projections = <<>>
        /\ projections' = [i \in 1..Len(run) |->
                              [player_id |-> run[i][1], season |-> CurrentSeason,
                               round |-> run[i][2], predicted_points |-> run[i][3],
                               confidence |-> run[i][4]]]
        /\ op' = "save_projections"
        /\ UNCHANGED <<prices, advice, coverage>>
        /\ UNCHANGED <<scoringVars, importVars, predictorVars>>

\* ByePlanner(db).suggest_bye_trades(squad, season, trades_available)
SuggestByeTrades ==
    \E squad \in TradeSquads, trades_available \in TradesAvailable, order \in QueryOrders :
        /\ coverage = None
        /\ coverage' = Some([call |-> "suggest_bye_trades", squad |-> squad,
                             season |-> CurrentSeason,
                             trades_available |-> trades_available, order |-> order,
                             bye_analysis |-> analyze_squad_bye_coverage(players, squad,
                                                                         order),
                             result |-> suggest_bye_trades(players, projections, squad,
                                            CurrentSeason, trades_available, order)])
        /\ op' = "suggest_bye_trades"
        /\ UNCHANGED <<projections, prices, advice>>
        /\ UNCHANGED <<scoringVars, importVars, predictorVars>>

\* ByePlanner(db).create_multi_week_plan(squad, season, current_round) for a squad
CreateSquadPlan ==
    \E squad \in TradeSquads, current_round \in PlanRounds, order \in QueryOrders :
        /\ coverage = None
        /\ coverage' = Some([call |-> "create_multi_week_plan", squad |-> squad,
                             season |-> CurrentSeason,
                             result |-> create_multi_week_plan(players, projections, squad,
                                            CurrentSeason, current_round, DefaultHorizon,
                                            order)])
        /\ op' = "create_plan"
        /\ UNCHANGED <<projections, prices, advice>>
        /\ UNCHANGED <<scoringVars, importVars, predictorVars>>

ByeTradesInit ==
    /\ db_rules \in [Seasons -> {"none"}]
    /\ engine = None /\ stats = None /\ points = None /\ error = None
    /\ known = None /\ memo = None
    /\ op = "init"
    /\ players = TradePlayers
    /\ matches = <<>> /\ pms = <<>> /\ scores = <<>> /\ scored_with = {}
    /\ prediction = None /\ generation = None
    /\ projections = <<>> /\ prices = <<>> /\ advice = None /\ coverage = None

ByeTradesNext ==
    \/ SaveTradeProjections
    \/ SuggestByeTrades
    \/ CreateSquadPlan
    \/ TakeCoverage

SpecByeTrades == ByeTradesInit /\ [][ByeTradesNext]_vars

(***************************************************************************)
(*                       CLAIMS: TEAM OPTIMIZER                            *)
(***************************************************************************)
Advised(call) == advice # None /\ Val(advice).call = call
Advice == Val(advice)

\* the projections of the squad for the season and round of the call
SquadProjections(player_ids, season, round_num) ==
    {id \in 1..Len(projections) :
        /\ projections[id].player_id \in player_ids
        /\ projections[id].season = season
        /\ projections[id].round = round_num}

ScoreOf(id) == projections[id].predicted_points * projections[id].confidence

\* C8: suggest_captain returns (None, None) when no projection exists for any
\* squad player in the season and round; otherwise the captain is one of the
\* projected squad players and its score is >= the score of every other one.
C8_CaptainHasTopScore ==
    Advised("suggest_captain") =>
        LET mine == SquadProjections(Advice.player_ids, Advice.season, Advice.round_num)
            captain == Advice.result.captain
        IN  IF mine = {}
            THEN captain = None /\ Advice.result.vice_captain = None
            ELSE /\ captain # None
                 /\ \E id \in mine : /\ projections[id].player_id = Val(captain).player_id
                                     /\ ScoreOf(id) = Val(captain).score
                 /\ \A id \in mine : Val(captain).score >= ScoreOf(id)

\* C8 witness: three or more projections with different scores, the best not
\* the first row returned
C8_Witness ==
    /\ Advised("suggest_captain")
    /\ Len(Advice.rows) >= 3
    /\ Advice.result.captain # None
    /\ Val(Advice.result.captain).score > ScoreOf(Advice.rows[1])
    /\ \E id \in SquadProjections(Advice.player_ids, Advice.season, Advice.round_num) :
           ScoreOf(id) < ScoreOf(Advice.rows[1])

\* last round's price of a player, 400 when no price record exists
LastPrices(player_id, season, round_num) ==
    LET rows == {k \in 1..Len(prices) : /\ prices[k].player_id = player_id
                                         /\ prices[k].season = season
                                         /\ prices[k].round = round_num - 1}
    IN  IF rows = {} THEN {400} ELSE {prices[k].price : k \in rows}

\* C9: every suggestion returned by suggest_trades has a trade-in player whose
\* price (last round's price, or 400 when there is no price record) is at most
\* bank_balance + 100.
C9_TradeInAffordable ==
    Advised("suggest_trades") =>
        \A k \in 1..Len(Advice.result) :
            \A price \in LastPrices(Advice.result[k].trade_in_id, Advice.season,
                                    Advice.round_num) :
                price <= Advice.bank_balance + 100

\* C9 witness: a trade-in at exactly bank_balance + 100 is suggested while a
\* projected player outside the squad costs more than that
C9_Witness ==
    /\ Advised("suggest_trades")
    /\ \E k \in 1..Len(Advice.result) :
           LastPrices(Advice.result[k].trade_in_id, Advice.season, Advice.round_num)
               = {Advice.bank_balance + 100}
    /\ \E id \in 1..Len(projections) :
           /\ projections[id].round = Advice.round_num
           /\ projections[id].player_id \notin Advice.current_squad
           /\ \A price \in LastPrices(projections[id].player_id, Advice.season,
                                      Advice.round_num) :
                  price > Advice.bank_balance + 100

(***************************************************************************)
(*                        CLAIMS: BYE PLANNER                              *)
(***************************************************************************)
Covered == coverage # None /\ Val(coverage).call = "analyze_squad_bye_coverage"
Coverage == Val(coverage)

OnBye(round_num) ==
    {Coverage.result[round_num].players_on_bye[i].id :
        i \in 1..Len(Coverage.result[round_num].players_on_bye)}

Available(round_num) == Range(Coverage.result[round_num].players_available)

\* C10: for every round 13..17 of the result of analyze_squad_bye_coverage,
\* players_on_bye and players_available are disjoint and their sizes add up to
\* the number of ids passed in as the squad.
C10_ByePartitionOfSquad ==
    Covered =>
        \A round_num \in ByeRounds :
            /\ OnBye(round_num) \cap Available(round_num) = {}
            /\ Len(Coverage.result[round_num].players_on_bye)
                 + Len(Coverage.result[round_num].players_available)
               = Len(Coverage.squad)

Planned == coverage # None /\ Val(coverage).call = "create_multi_week_plan"
Plan == Val(coverage).result

RECURSIVE SumOver(_, _)
SumOver(S, f) ==
    IF S = {} THEN 0
    ELSE LET x == CHOOSE x \in S : TRUE IN f[x] + SumOver(S \ {x}, f)

\* C11: the total_bye_impact of create_multi_week_plan equals the sum over rounds
\* 13..17 of the number of players_on_bye in the plan's bye_analysis.
C11_ImpactIsSumOfByePlayers ==
    Planned =>
        Plan.total_bye_impact
          = SumOver(ByeRounds, [r \in ByeRounds |-> Len(Plan.bye_analysis[r].players_on_bye)])

\* C11 witness: a plan whose squad has players on bye in two different rounds
C11_Witness ==
    /\ Planned
    /\ Plan.total_bye_impact = 3
    /\ Len(Plan.bye_analysis[13].players_on_bye) = 2
    /\ Len(Plan.bye_analysis[16].players_on_bye) = 1

(***************************************************************************)
(*                    CLAIMS: ADVANCED PREDICTOR                           *)
(***************************************************************************)
AdvancedPredicted == prediction # None /\ Val(prediction).call = "advanced_predict"

\* the scores the blend is taken over, most recent first, from the scores table
ScoresBefore(player_id, season, next_round) ==
    LET rounds == {r \in 1..(next_round - 1) : \E i \in 1..Len(scores) :
                      /\ scores[i].player_id = player_id /\ scores[i].season = season
                      /\ scores[i].round = r}
        ScoreAt(r) == scores[CHOOSE i \in 1..Len(scores) :
                          /\ scores[i].player_id = player_id /\ scores[i].season = season
                          /\ scores[i].round = r].fantasy_points
        desc_rounds == order_by_desc([i \in 1..(next_round - 1) |-> i],
                                     [r \in 1..(next_round - 1) |-> r])
        mine == keep_only(desc_rounds, {i \in 1..Len(desc_rounds) : desc_rounds[i] \in rounds})
    IN  [i \in 1..Len(mine) |-> ScoreAt(mine[i])]

\* the blend of the scores of the call, with the venue factor and the opponent
\* defense of the returned features
ExpectedBlend ==
    LET history == limit(ScoresBefore(Call.player_id, Call.season, Call.next_round), 10)
        used == IF history = <<>> THEN <<350>> ELSE history
    IN  blend_of([last_3 |-> limit(used, 3), last_5 |-> limit(used, 5), last_10 |-> used,
                  venue_factor |-> Call.result.features.venue_factor,
                  opponent_defense |-> Call.result.features.opponent_defense])

\* C12: with no trained model loaded, AdvancedPredictor.predict never raises,
\* whatever the input (unknown player, no history, with or without opponent and
\* venue context); the result then is the blend 0.5*avg_last_3 + 0.3*avg_last_5
\* + 0.2*avg_last_10 times the venue factor times the opponent adjustment.
C12_FallbackNeverRaises ==
    (AdvancedPredicted /\ Call.model = None) =>
        /\ Call.result.status = "ok"
        /\ Call.result.predicted_points = ExpectedBlend

\* the part of C12 that holds: a fallback result that is returned is the blend
C12_FallbackIsBlend ==
    (AdvancedPredicted /\ Call.model = None /\ Call.result.status = "ok") =>
        Call.result.predicted_points = ExpectedBlend

\* C13: every projection AdvancedPredictor.predict returns, with or without a
\* trained model, has a confidence in [0, 1].
C13_AdvancedConfidenceInRange ==
    (AdvancedPredicted /\ Call.result.status = "ok")
    => (0 <= Call.result.confidence /\ Call.result.confidence <= 100)

(***************************************************************************)
(*                     CLAIMS: UNKNOWN PLAYER IDS                          *)
(***************************************************************************)
KnownPlayer(player_id) == player_id \in 1..Len(players)

\* C14: a player id that matches no player is surfaced as an error by
\* predict_next_round, AdvancedPredictor.predict and analyze_squad_bye_coverage:
\* none of them returns a result for an id that is not in the players table.
C14_UnknownPlayerIsError ==
    /\ (Predicted /\ Call.result.status = "ok") => KnownPlayer(Call.player_id)
    /\ (AdvancedPredicted /\ Call.result.status = "ok") => KnownPlayer(Call.player_id)
    /\ Covered => \A i \in 1..Len(Coverage.squad) : KnownPlayer(Coverage.squad[i])

\* the part of C14 that holds: predict_next_round raises ValueError
C14_PredictNextRoundRaises ==
    (Predicted /\ ~KnownPlayer(Call.player_id)) => Call.result.status = "ValueError"

(***************************************************************************)
(*                 CLAIMS: generate_all_projections                        *)
(***************************************************************************)
Generating == generation # None
Generation == Val(generation)

\* C15: for a fixed database of scores and stats, the projection produced for
\* each player by generate_all_projections is the same for every order and
\* interleaving in which the players are processed: every prediction made and
\* every row saved by the call equals the prediction of that player on the
\* database as it was when the call started.
C15_OrderIndependent ==
    Generating =>
        /\ \A entry \in Generation.in_flight :
               entry.result = Generation.reference[entry.player_id]
        /\ \A id \in (Generation.base + 1)..Len(projections) :
               LET expected == Generation.reference[projections[id].player_id]
               IN  /\ projections[id].predicted_points = expected.predicted_points
                   /\ projections[id].confidence = expected.confidence

\* C15 witness: a second call in which player 2 was saved before player 1, with
\* different projections
C15_Witness ==
    /\ Generating
    /\ Generation.base > 0
    /\ Len(projections) = Generation.base + 2
    /\ projections[Generation.base + 1].player_id = 2
    /\ projections[Generation.base + 2].player_id = 1
    /\ projections[Generation.base + 1].predicted_points
         # projections[Generation.base + 2].predicted_points

(***************************************************************************)
(*            CLAIMS: the result of predict_next_round                     *)
(***************************************************************************)
RequiredFeatures == {"avg_all_games", "avg_last_3", "avg_minutes", "games_analyzed", "std_dev"}

\* C16: every result of predict_next_round, with no history as well as with a
\* weighted average, carries a feature snapshot holding at least the mean over
\* all analysed games, the mean of the most recent 3, the average minutes, the
\* sample count and the standard deviation.
C16_FeaturesComplete ==
    (Predicted /\ Call.result.status = "ok") =>
        RequiredFeatures \subseteq DOMAIN Call.result.features

\* the minutes of the player's stat rows of the season before next_round, most
\* recent round first
MinutesBefore(player_id, season, next_round) ==
    LET Mine(i, r) == /\ pms[i].player_id = player_id
                      /\ matches[pms[i].match_id].season = season
                      /\ matches[pms[i].match_id].round = r
        rounds == {r \in 1..(next_round - 1) : \E i \in 1..Len(pms) : Mine(i, r)}
        desc_rounds == order_by_desc([i \in 1..(next_round - 1) |-> i],
                                     [r \in 1..(next_round - 1) |-> r])
        mine == keep_only(desc_rounds, {i \in 1..Len(desc_rounds) : desc_rounds[i] \in rounds})
    IN  [i \in 1..Len(mine) |-> pms[CHOOSE k \in 1..Len(pms) : Mine(k, mine[i])].minutes]

\* the history of the call: at most lookback_games scores, most recent first
History == limit(ScoresBefore(Call.player_id, Call.season, Call.next_round), Call.lookback_games)
RecentMinutes == limit(MinutesBefore(Call.player_id, Call.season, Call.next_round), Call.lookback_games)

\* W * min(1, avg_minutes / 70) rounded to one decimal, in tenths
ExpectedPoints ==
    LET s == History
        n == Len(s)
        \* W = w / w_scale
        w == IF n >= 4 THEN 4 * s[1] + 3 * s[2] + 2 * s[3] + 1 * s[4] ELSE SumSeq(s)
        w_scale == IF n >= 4 THEN 10 ELSE n
        \* avg_minutes = total / count
        total == IF RecentMinutes = <<>> THEN 60 ELSE SumSeq(RecentMinutes)
        count == IF RecentMinutes = <<>> THEN 1 ELSE Len(RecentMinutes)
    IN  IF total >= 70 * count
        THEN RoundDiv(w, w_scale)
        ELSE RoundDiv(w * total, w_scale * 70 * count)

\* C17: for a non-empty history of n scores, most recent first and at most the
\* lookback window, predicted_points is W * min(1, avg_minutes / 70) rounded to
\* one decimal, with W = 0.4 s1 + 0.3 s2 + 0.2 s3 + 0.1 s4 when n >= 4 (older
\* games weigh 0) and the plain mean when n < 4, and avg_minutes the mean minutes
\* of the recent stat rows or 60 when there are none.
C17_WeightedPoints ==
    (Predicted /\ Call.player_id \in 1..Len(players) /\ History # <<>>) =>
        /\ Call.result.status = "ok"
        /\ Call.result.predicted_points = ExpectedPoints

\* C17 witness: five games in the window, the oldest with points, played for
\* less than 70 minutes on average
C17_Witness ==
    /\ Predicted
    /\ Call.player_id \in 1..Len(players)
    /\ Len(History) = 5
    /\ History[5] > 0
    /\ RecentMinutes # <<>>
    /\ SumSeq(RecentMinutes) < 70 * Len(RecentMinutes)
    /\ Call.result.predicted_points > 0
    /\ Call.result.predicted_points = ExpectedPoints

(***************************************************************************)
(*                    CLAIMS: suggest_trades                               *)
(***************************************************************************)
Candidates == Advice.candidates

\* value(in) - value(out) > 0.5 with value = predicted_points / max(1, price) * 100,
\* predicted_points in tenths
ValueGainAboveHalf(trade_out, trade_in) ==
    LET p_out == IF trade_out.price < 1 THEN 1 ELSE trade_out.price
        p_in == IF trade_in.price < 1 THEN 1 ELSE trade_in.price
    IN  2 * (10 * trade_in.predicted_points * p_out - 10 * trade_out.predicted_points * p_in)
          > p_in * p_out

\* predicted_points(in) - predicted_points(out) > 10
PointsGainAboveTen(trade_out, trade_in) ==
    trade_in.predicted_points - trade_out.predicted_points > 100

\* the pair is among the suggestions made before ranking and truncation
Accepted(trade_out, trade_in) ==
    \E k \in 1..Len(Candidates.trade_suggestions) :
        Candidates.trade_suggestions[k]
          = [trade_out_id |-> trade_out.player_id, trade_in_id |-> trade_in.player_id,
             projected_gain |-> trade_in.predicted_points - trade_out.predicted_points,
             price_difference |-> trade_in.price - trade_out.price]

\* the projections of the squad for the round of the call, each with last round's price
SquadEntries ==
    {[player_id |-> projections[id].player_id,
      predicted_points |-> projections[id].predicted_points, price |-> price] :
        id \in SquadProjections(Advice.current_squad, Advice.season, Advice.round_num),
        price \in UNION {LastPrices(player_id, Advice.season, Advice.round_num) :
                            player_id \in Advice.current_squad}}

\* C18: before ranking and truncation, suggest_trades accepts a pair (out, in),
\* out among the 3 lowest-value projected squad players and in among the
\* considered affordable candidates outside the squad, if and only if
\* value(in) - value(out) > 0.5 or predicted_points(in) - predicted_points(out) > 10;
\* either condition alone is sufficient.
C18_AcceptedIffGain ==
    Advised("suggest_trades") =>
        LET outs == Candidates.outs
            ins == Candidates.ins
        IN  /\ Len(outs) <= 3
            /\ \A o \in 1..Len(outs) :
                   /\ outs[o].player_id \in Advice.current_squad
                   /\ \A e \in SquadEntries :
                          (/\ e.price \in LastPrices(e.player_id, Advice.season,
                                                       Advice.round_num)
                           /\ \A k \in 1..Len(outs) : outs[k] # e)
                          => ~value_less(e, outs[o])
            /\ \A i \in 1..Len(ins) :
                   /\ ins[i].player_id \notin Advice.current_squad
                   /\ ins[i].price <= Advice.bank_balance + 100
            /\ \A o \in 1..Len(outs), i \in 1..Len(ins) :
                   Accepted(outs[o], ins[i])
                     <=> (ValueGainAboveHalf(outs[o], ins[i])
                            \/ PointsGainAboveTen(outs[o], ins[i]))
            /\ \A k \in 1..Len(Candidates.trade_suggestions) :
                   \E o \in 1..Len(outs), i \in 1..Len(ins) :
                       /\ Candidates.trade_suggestions[k].trade_out_id = outs[o].player_id
                       /\ Candidates.trade_suggestions[k].trade_in_id = ins[i].player_id

\* C18 witness: one call with a pair accepted for its value gain alone, a pair
\* accepted for its points gain alone and a pair that is not accepted
C18_Witness ==
    /\ Advised("suggest_trades")
    /\ \E o \in 1..Len(Candidates.outs), i \in 1..Len(Candidates.ins) :
           /\ Accepted(Candidates.outs[o], Candidates.ins[i])
           /\ ValueGainAboveHalf(Candidates.outs[o], Candidates.ins[i])
           /\ ~PointsGainAboveTen(Candidates.outs[o], Candidates.ins[i])
    /\ \E o \in 1..Len(Candidates.outs), i \in 1..Len(Candidates.ins) :
           /\ Accepted(Candidates.outs[o], Candidates.ins[i])
           /\ ~ValueGainAboveHalf(Candidates.outs[o], Candidates.ins[i])
           /\ PointsGainAboveTen(Candidates.outs[o], Candidates.ins[i])
    /\ \E o \in 1..Len(Candidates.outs), i \in 1..Len(Candidates.ins) :
           ~Accepted(Candidates.outs[o], Candidates.ins[i])

\* how many of the suggestions in seq have the projected gain x
GainCount(seq, x) == Cardinality({k \in 1..Len(seq) : seq[k].projected_gain = x})

\* the projected gains of the accepted suggestions left out of the result
LeftOutGains ==
    {x \in {Candidates.trade_suggestions[k].projected_gain :
               k \in 1..Len(Candidates.trade_suggestions)} :
        GainCount(Candidates.trade_suggestions, x) > GainCount(Advice.result, x)}

RankedAndTruncated ==
    /\ Len(Advice.result) <= Advice.limit
    /\ \A k \in 1..(Len(Advice.result) - 1) :
           Advice.result[k].projected_gain >= Advice.result[k + 1].projected_gain
    /\ \A k \in 1..Len(Advice.result) :
           \E a \in 1..Len(Candidates.trade_suggestions) :
               Candidates.trade_suggestions[a] = Advice.result[k]
    /\ \A x \in LeftOutGains :
           \A k \in 1..Len(Advice.result) : x <= Advice.result[k].projected_gain

\* C19: for every limit, suggest_trades returns at most limit suggestions, in
\* non-increasing order of projected_gain, and no accepted pair left out of the
\* result has a projected_gain greater than one that is returned.
C19_RankedAndTruncated == Advised("suggest_trades") => RankedAndTruncated

\* the part of C19 that holds: the same for a limit that is not negative
C19_NonNegativeLimit ==
    (Advised("suggest_trades") /\ Advice.limit >= 0) => RankedAndTruncated

(***************************************************************************)
(*                    CLAIMS: suggest_captain                              *)
(***************************************************************************)
\* the position in rows of the first projection whose score no other position
\* outside skip exceeds
FirstBest(rows, skip) ==
    CHOOSE i \in (1..Len(rows)) \ skip :
        /\ \A j \in (1..Len(rows)) \ skip : ScoreOf(rows[j]) <= ScoreOf(rows[i])
        /\ \A j \in (1..(i - 1)) \ skip : ScoreOf(rows[j]) < ScoreOf(rows[i])

\* C20: suggest_captain orders the candidates by score descending with ties kept
\* in their input order: the captain is the first-listed projection among those
\* of maximal score, the vice-captain is the next element of that stable order,
\* and the vice-captain is None exactly when only one projection exists.
C20_StableCaptainOrder ==
    (Advised("suggest_captain") /\ Advice.rows # <<>>) =>
        LET rows == Advice.rows
            first == FirstBest(rows, {})
        IN  /\ Advice.result.captain = Some(scored_player(projections[rows[first]]))
            /\ (Advice.result.vice_captain = None) <=> (Len(rows) = 1)
            /\ Len(rows) > 1 =>
                   Advice.result.vice_captain
                     = Some(scored_player(projections[rows[FirstBest(rows, {first})]]))

\* C20 witness: three or more projections, the two best of different players
\* with the same score and not the first row; the captain is the one listed first
C20_Witness ==
    /\ Advised("suggest_captain")
    /\ Len(Advice.rows) >= 3
    /\ \E i \in 2..Len(Advice.rows), j \in 3..Len(Advice.rows) :
           /\ i < j
           /\ ScoreOf(Advice.rows[i]) = ScoreOf(Advice.rows[j])
           /\ projections[Advice.rows[i]].player_id # projections[Advice.rows[j]].player_id
           /\ \A k \in 1..Len(Advice.rows) : ScoreOf(Advice.rows[k]) <= ScoreOf(Advice.rows[i])
           /\ ScoreOf(Advice.rows[1]) < ScoreOf(Advice.rows[i])
           /\ Val(Advice.result.captain).player_id = projections[Advice.rows[i]].player_id
           /\ Val(Advice.result.vice_captain).player_id = projections[Advice.rows[j]].player_id

(***************************************************************************)
(*                    CLAIMS: suggest_bye_trades                           *)
(***************************************************************************)
Suggested == coverage # None /\ Val(coverage).call = "suggest_bye_trades"
ByeCall == Val(coverage)
ByeTrades == Val(coverage).result

\* the suggestions whose trade_out has its bye in the round
TradesFor(round_num) ==
    {k \in 1..Len(ByeTrades) : ByeTrades[k].trade_out.bye_round = round_num}

\* the squad players whose team has its bye in the round
SquadOnBye(round_num) ==
    {id \in Range(ByeCall.squad) :
        id \in 1..Len(players) /\ players[id].team \in Range(bye_schedule[round_num])}

PerRoundLimits ==
    /\ \A round_num \in ByeRounds : Cardinality(TradesFor(round_num)) <= 2
    /\ \A k \in 1..Len(ByeTrades) :
           /\ ByeTrades[k].trade_out.bye_round \in ByeRounds
           /\ Cardinality(SquadOnBye(ByeTrades[k].trade_out.bye_round)) > 2

\* C21: for every squad and every trades_available, 0 and negative values
\* included, suggest_bye_trades returns at most trades_available suggestions, at
\* most 2 suggestions whose trade_out has the same bye round, and no suggestion
\* for a bye round in which 2 or fewer squad players are on bye.
C21_AtMostTradesAvailable ==
    Suggested => (Len(ByeTrades) <= ByeCall.trades_available /\ PerRoundLimits)

\* C21 as it holds: the number of suggestions is at most trades_available, and
\* none when trades_available is negative; the limits per round as stated.
C21_AtMostNonNegativeTrades ==
    Suggested =>
        /\ Len(ByeTrades) <= (IF ByeCall.trades_available < 0 THEN 0
                              ELSE ByeCall.trades_available)
        /\ PerRoundLimits

\* C21 witness: trades_available cuts the suggestions short: two rounds with more
\* than 2 players on bye, 3 trades available, 2 suggestions for one round and 1
\* for the other
C21_Witness ==
    /\ Suggested
    /\ ByeCall.trades_available = 3
    /\ Len(ByeTrades) = 3
    /\ Cardinality(SquadOnBye(13)) > 2
    /\ Cardinality(SquadOnBye(14)) > 2
    /\ Cardinality(TradesFor(14)) = 2
    /\ Cardinality(TradesFor(13)) = 1

OnByeCount(round_num) == Len(ByeCall.bye_analysis[round_num].players_on_bye)

\* how many of the first two players on bye in the round have a replacement
Replaceable(round_num) ==
    LET round_data == ByeCall.bye_analysis[round_num]
        first_two == 1..(IF OnByeCount(round_num) < 2 THEN OnByeCount(round_num) ELSE 2)
    IN  Cardinality({i \in first_two :
            find_replacement(players, projections, round_data.players_on_bye[i].position,
                             all_teams \ Range(round_data.teams_on_bye), ByeCall.season,
                             round_num, ByeCall.order) # None})

\* C22: suggest_bye_trades processes the bye rounds in descending order of squad
\* players on bye: the suggestions are listed in non-increasing order of their
\* round's on-bye count, and no suggestion is emitted for a round while a round
\* with strictly more players on bye got fewer suggestions than its first two
\* players on bye have replacements.
C22_MostAffectedRoundsFirst ==
    Suggested =>
        /\ \A k \in 1..(Len(ByeTrades) - 1) :
               OnByeCount(ByeTrades[k].trade_out.bye_round)
                 >= OnByeCount(ByeTrades[k + 1].trade_out.bye_round)
        /\ \A k \in 1..Len(ByeTrades) :
               \A round_num \in ByeRounds :
                   OnByeCount(round_num) > OnByeCount(ByeTrades[k].trade_out.bye_round)
                   => Cardinality(TradesFor(round_num)) = Replaceable(round_num)

\* C22 witness: 3 trades available, 4 players on bye in round 14 and 3 in round
\* 13: two suggestions for round 14, then one for round 13
C22_Witness ==
    /\ Suggested
    /\ ByeCall.trades_available = 3
    /\ OnByeCount(14) = 4
    /\ OnByeCount(13) = 3
    /\ Len(ByeTrades) = 3
    /\ ByeTrades[1].trade_out.bye_round = 14
    /\ ByeTrades[2].trade_out.bye_round = 14
    /\ ByeTrades[3].trade_out.bye_round = 13

\* the positions a comma-separated positions string lists
PositionsOf(positions) ==
    CASE positions = "HOK" -> {"HOK"}
      [] positions = "MID" -> {"MID"}
      [] positions = "HOK,MID" -> {"HOK", "MID"}

\* the projections for the round of players that share a position with the
\* trade-out player and whose team is not on bye in the round
ReplacementProjections(trade_out_id, round_num) ==
    {id \in 1..Len(projections) :
        /\ projections[id].season = ByeCall.season
        /\ projections[id].round = round_num
        /\ projections[id].player_id \in 1..Len(players)
        /\ players[projections[id].player_id].team \notin Range(bye_schedule[round_num])
        /\ PositionsOf(players[projections[id].player_id].positions)
             \cap PositionsOf(players[trade_out_id].positions) # {}}

\* C23: every suggestion for a player whose team has its bye in round R
\* recommends the trade in round R - 1, and its trade-in is the highest-projected
\* player for round R among the players that share the trade-out player's
\* position and whose team is not on bye in round R; there is no suggestion when
\* no such player has a projection.
C23_BestReplacementBeforeBye ==
    Suggested =>
        \A k \in 1..Len(ByeTrades) :
            LET trade_out == ByeTrades[k].trade_out
                trade_in == ByeTrades[k].trade_in
                candidates == ReplacementProjections(trade_out.id, trade_out.bye_round)
            IN  /\ trade_out.bye_round = get_team_bye_round(players[trade_out.id].team)
                /\ ByeTrades[k].round = trade_out.bye_round - 1
                /\ \E id \in candidates :
                       /\ projections[id].player_id = trade_in.id
                       /\ projections[id].predicted_points = trade_in.predicted_points
                /\ \A id \in candidates :
                       projections[id].predicted_points <= trade_in.predicted_points

\* the part of C23 that holds: the trade is recommended for the round before the
\* bye, and the trade-in has a projection for the bye round and a team not on bye
C23_TradeBeforeBye ==
    Suggested =>
        \A k \in 1..Len(ByeTrades) :
            /\ ByeTrades[k].round = ByeTrades[k].trade_out.bye_round - 1
            /\ \E id \in ReplacementProjections(ByeTrades[k].trade_out.id,
                                                ByeTrades[k].trade_out.bye_round) :
                   projections[id].player_id = ByeTrades[k].trade_in.id

\* C28: in the list returned by suggest_bye_trades no trade-in player is already
\* a member of the squad, and no player is the trade-in of two suggestions.
C28_TradeInsNewAndDistinct ==
    Suggested =>
        /\ \A k \in 1..Len(ByeTrades) : ByeTrades[k].trade_in.id \notin Range(ByeCall.squad)
        /\ \A k \in 1..Len(ByeTrades), j \in 1..Len(ByeTrades) :
               k # j => ByeTrades[k].trade_in.id # ByeTrades[j].trade_in.id

(***************************************************************************)
(*                  CLAIMS: create_multi_week_plan                         *)
(***************************************************************************)
\* C24: create_multi_week_plan lists the aggressive_trading alternative if and
\* only if total_bye_impact is greater than 8, and then its trades_recommended is
\* the number of recommended trades plus 2; for a total_bye_impact of 8 or less
\* alternative_strategies is empty.
C24_AggressiveAboveEight ==
    Planned =>
        /\ (\E i \in 1..Len(Plan.alternative_strategies) :
                Plan.alternative_strategies[i].strategy = "aggressive_trading")
           <=> (Plan.total_bye_impact > 8)
        /\ \A i \in 1..Len(Plan.alternative_strategies) :
               Plan.alternative_strategies[i].strategy = "aggressive_trading"
               => Plan.alternative_strategies[i].trades_recommended
                    = Len(Plan.recommended_trades) + 2
        /\ Plan.total_bye_impact <= 8 => Plan.alternative_strategies = <<>>

\* C24 witness: a plan for a squad with 9 players on bye and recommended trades
C24_Witness ==
    /\ Planned
    /\ Plan.total_bye_impact = 9
    /\ Len(Plan.recommended_trades) >= 2
    /\ Len(Plan.alternative_strategies) = 1
    /\ Plan.alternative_strategies[1].trades_recommended = Len(Plan.recommended_trades) + 2

(***************************************************************************)
(*                    CLAIMS: one record per game                          *)
(***************************************************************************)
\* no two rows of the table are of the same player and match
OnePerGame(table) ==
    \A i \in 1..Len(table), j \in 1..Len(table) :
        (table[i].player_id = table[j].player_id /\ table[i].match_id = table[j].match_id)
        => i = j

\* C25: after any sequence of import_player_stats calls, re-imports of the same
\* data and batches that list a player and round more than once included, the
\* database holds at most one FantasyScore and at most one PlayerMatchStats per
\* player and match.
C25_OneRecordPerPlayerAndMatch == OnePerGame(pms) /\ OnePerGame(scores)

\* the part of C25 that holds: an import adds nothing for a player and match
\* that the database already holds when the import starts
C25_ReimportAddsNothing ==
    [][\A i \in (Len(pms) + 1)..Len(pms') :
           \A j \in 1..Len(pms) :
               ~(pms'[i].player_id = pms[j].player_id /\ pms'[i].match_id = pms[j].match_id)]_vars

(***************************************************************************)
(*               CLAIMS: captain and vice-captain                          *)
(***************************************************************************)
\* C26: after any sequence of projection-generating operations
\* (generate_all_projections any number of times for the same season and round,
\* and the team-projection flow that saves a projection only when none exists),
\* the captain and the vice-captain returned by suggest_captain are two
\* different players whenever both are not None.
C26_CaptainIsNotViceCaptain ==
    (Advised("project_team") /\ Advice.result.captain # None
                             /\ Advice.result.vice_captain # None)
    => Val(Advice.result.captain).player_id # Val(Advice.result.vice_captain).player_id

\* the part of C26 that holds: the team-projection flow alone never saves a
\* second projection for a player, season and round
C26_FlowSavesOnlyMissing ==
    [][op' = "project_team" =>
          \A i \in (Len(projections) + 1)..Len(projections') :
              \A j \in 1..Len(projections') :
                  (/\ projections'[j].player_id = projections'[i].player_id
                   /\ projections'[j].season = projections'[i].season
                   /\ projections'[j].round = projections'[i].round) => j = i]_vars

(***************************************************************************)
(*               CLAIMS: the players of a trade                            *)
(***************************************************************************)
\* C27: in every suggestion returned by suggest_trades the trade-out player is a
\* member of current_squad and the trade-in player is not, so no suggestion
\* trades a player for themselves or trades in a player already owned.
C27_TradeOutOwnedTradeInNot ==
    Advised("suggest_trades") =>
        \A k \in 1..Len(Advice.result) :
            /\ Advice.result[k].trade_out_id \in Advice.current_squad
            /\ Advice.result[k].trade_in_id \notin Advice.current_squad
            /\ Advice.result[k].trade_out_id # Advice.result[k].trade_in_id

\* C27 witness: suggestions for a squad of two, with projections for both squad
\* players and for two players outside the squad
C27_Witness ==
    /\ Advised("suggest_trades")
    /\ Cardinality(Advice.current_squad) = 2
    /\ Len(Advice.result) >= 2
    /\ \A player_id \in 1..Len(players) :
           \E id \in 1..Len(projections) :
               /\ projections[id].player_id = player_id
               /\ projections[id].season = Advice.season
               /\ projections[id].round = Advice.round_num
    /\ \E k \in 1..Len(Advice.result), j \in 1..Len(Advice.result) :
           /\ Advice.result[k].trade_out_id # Advice.result[j].trade_out_id
    /\ \E k \in 1..Len(Advice.result), j \in 1..Len(Advice.result) :
           /\ Advice.result[k].trade_in_id # Advice.result[j].trade_in_id

(***************************************************************************)
(*               CLAIMS: what a prediction reads                           *)
(***************************************************************************)
\* the score rows the call may read: the player's rows of the season before
\* next_round, fewer than lookback_games of them being more recent
ScoreWindow ==
    LET Mine(id) == /\ scores[id].player_id = Call.player_id
                    /\ scores[id].season = Call.season
                    /\ scores[id].round < Call.next_round
    IN  {id \in 1..Len(scores) :
            /\ Mine(id)
            /\ Cardinality({j \in 1..Len(scores) :
                               Mine(j) /\ scores[j].round > scores[id].round})
                   < Call.lookback_games}

\* the stat rows the call may read, the season and round being those of the match
StatWindow ==
    LET Mine(id) == /\ pms[id].player_id = Call.player_id
                    /\ matches[pms[id].match_id].season = Call.season
                    /\ matches[pms[id].match_id].round < Call.next_round
    IN  {id \in 1..Len(pms) :
            /\ Mine(id)
            /\ Cardinality({j \in 1..Len(pms) :
                               /\ Mine(j)
                               /\ matches[pms[j].match_id].round
                                      > matches[pms[id].match_id].round})
                   < Call.lookback_games}

\* the tables with every row outside the windows removed
ScoresRemoved == [i \in 1..Cardinality(ScoreWindow) |-> scores[select_from(scores, ScoreWindow, 1)[i]]]
StatsRemoved == [i \in 1..Cardinality(StatWindow) |-> pms[select_from(pms, StatWindow, 1)[i]]]

\* the tables with every row outside the windows changed
ScoresChanged ==
    [id \in 1..Len(scores) |->
        IF id \in ScoreWindow THEN scores[id]
        ELSE [scores[id] EXCEPT !.fantasy_points = 1500 - @]]
StatsChanged ==
    [id \in 1..Len(pms) |->
        IF id \in StatWindow THEN pms[id] ELSE [pms[id] EXCEPT !.minutes = 90 - @]]

\* C29: the result of predict_next_round for round R of season S depends only
\* on the player's score and stat records of season S with round < R, and of
\* those only on the lookback_games most recent of each: removing or changing
\* every other record (round >= R, another season, another player, older than
\* the window) leaves the result unchanged.
C29_ReadsOnlyTheWindow ==
    (prediction # None /\ Call.call = "predict_next_round") =>
        /\ Call.result = predict_next_round(players, ScoresRemoved, StatsRemoved, matches,
                             Call.player_id, Call.season, Call.next_round,
                             Call.lookback_games)
        /\ Call.result = predict_next_round(players, ScoresChanged, StatsChanged, matches,
                             Call.player_id, Call.season, Call.next_round,
                             Call.lookback_games)

\* C29 witness: a weighted-average prediction for player 1 with a window of 3,
\* where the tables also hold rows of another season and another player, rows
\* of round >= next_round, and score and stat rows older than the window
C29_Witness ==
    /\ prediction # None /\ Call.call = "predict_next_round"
    /\ Call.player_id = 1 /\ Call.season = CurrentSeason /\ Call.lookback_games = 3
    /\ Call.result.status = "ok" /\ Call.result.method = "weighted_average"
    /\ \E id \in 1..Len(scores) : scores[id].season # Call.season
    /\ \E id \in 1..Len(scores) : scores[id].player_id # Call.player_id
    /\ \E id \in 1..Len(scores) :
           /\ scores[id].player_id = 1 /\ scores[id].season = Call.season
           /\ scores[id].round >= Call.next_round
    /\ \E id \in 1..Len(pms) :
           /\ pms[id].player_id = 1
           /\ matches[pms[id].match_id].season = Call.season
           /\ matches[pms[id].match_id].round >= Call.next_round
    /\ \E id \in 1..Len(scores) :
           /\ scores[id].player_id = 1 /\ scores[id].season = Call.season
           /\ scores[id].round < Call.next_round
           /\ id \notin ScoreWindow
    /\ \E id \in 1..Len(pms) :
           /\ pms[id].player_id = 1
           /\ matches[pms[id].match_id].season = Call.season
           /\ matches[pms[id].match_id].round < Call.next_round
           /\ id \notin StatWindow

(***************************************************************************)
(*               CLAIMS: a generation with failures                        *)
(***************************************************************************)
\* the players whose predictions wait to be saved
InFlightPlayers(g) == {entry.player_id : entry \in g.in_flight}

====
